---- MODULE Spec2Model ----
(***************************************************************************)
(* A model of the template tracker of public/processors/pointProcessor.js  *)
(* (class TemplateTracker, the PointProcessor entry points) and of the     *)
(* handlers of HoraceApp that drive it.                                    *)
(*                                                                         *)
(* Numbers.  The program computes with IEEE doubles.  The model uses fixed *)
(* point: positions, velocities, radii, confidences and match scores are   *)
(* integers counting 1/Q, luma samples of the frame cache are integers     *)
(* counting 1/LumaQ, and every assignment of the program rounds its exact  *)
(* result to the nearest unit.  Pixel coordinates handed to the frame      *)
(* buffer are whole pixels (a multiple of Q divided by Q).                 *)
(*                                                                         *)
(* Size.  The program's template is 31 x 31 samples.  The model keeps the  *)
(* program's definitions (halfSize = floor(templateSize / 2), the          *)
(* footprint loops, the bounds tests) and scales templateSize to           *)
(* 2 * TemplateHalf + 1, with frames a few pixels larger than a template.  *)
(***************************************************************************)
EXTENDS Integers, Sequences, FiniteSets, TLC

(***************************************************************************)
(* Bounds of the model.                                                    *)
(***************************************************************************)
TemplateHalf == 1       \* the template is (2 * TemplateHalf + 1) pixels wide
MaxTargets == 2         \* successful createTarget calls in one run
MaxClickFrame == 2      \* the user clicks in the first frames, or when nothing is tracked
MaxLiveFrames == 3      \* frames the camera delivers in a "live" scene
MaxDarkFrames == 50     \* frames the camera delivers in a "dark" scene
MaxStillFrames == 12    \* frames the camera delivers in a "still" scene
MaxCrowd == 5           \* targets created in a "crowd" scene
MaxCrowdFrames == 2     \* frames the camera delivers in a "crowd" scene
MaxResizedFrames == 2   \* frames the camera delivers in a "resized" scene
MaxResizedTargets == 1  \* successful createTarget calls in a "resized" scene
MaxNccLevel == 3        \* grey levels 0..MaxNccLevel of the samples the NCC is applied to
WideWidth == 26         \* the width of the wide canvas, in pixels
MaxWideFrames == 7      \* frames of a wide scene
MaxWideTargets == 1     \* targets created in a wide scene
MaxSpotFrames == 3      \* frames of a spot scene
MaxSpotTargets == 1     \* targets created in a spot scene
MaxLitFrames == 6       \* frames of a lit scene
MaxLitTargets == 1      \* targets created in a lit scene
MaxPanFrames == 12      \* frames of a pan scene
MaxPanTargets == 1      \* targets created in a pan scene
MaxPoolObjects == 12    \* scratch objects allocated in one run of the pools
MaxStarts == 2          \* clicks on the start button in one run
MaxAppFrames == 3       \* calls of frameLoop that pass its guard in one run

(***************************************************************************)
(* Fixed-point units.                                                      *)
(***************************************************************************)
Q == 10 * 100           \* units per 1.0 (and per pixel)
LumaQ == Q \div 100     \* luma units per grey level

Min(a, b) == IF a < b THEN a ELSE b
Max(a, b) == IF a > b THEN a ELSE b
Abs(a) == IF a < 0 THEN -a ELSE a

\* a / d rounded to the nearest integer, halves upwards (d > 0)
RoundDiv(a, d) == (2 * a + d) \div (2 * d)

\* a * b / Q in units of 1/Q: the product of two fixed-point numbers
MulQ(a, b) == RoundDiv(a * b, Q)

\* Math.round on a fixed-point number: the nearest whole number, halves upwards
MathRound(v) == ((v + Q \div 2) \div Q) * Q

\* the whole pixel index of a fixed-point number that is whole
Px(v) == v \div Q

RECURSIVE ISqrtFrom(_, _)
\* Newton's iteration downwards from an x >= sqrt(n)
ISqrtFrom(n, x) ==
    LET y == (x + n \div x) \div 2
    IN IF y >= x THEN x ELSE ISqrtFrom(n, y)

\* floor(sqrt(n)) for 0 <= n < 2^31
ISqrt(n) == IF n = 0 THEN 0 ELSE ISqrtFrom(n, 46341)

(***************************************************************************)
(* The constructor's constants (pointProcessor.js, lines 2-43).            *)
(***************************************************************************)
templateSize == 2 * TemplateHalf + 1
searchRadius == 30 * Q
maxLostFrames == 30
trailLength == 10
confidenceThreshold == Q \div 5          \* 0.2
poolLimit == 50         \* "this.objectPool[type].length < 50"
velocityDecay == (85 * Q) \div 100       \* 0.85
templateSizeSq == templateSize * templateSize
halfSize == templateSize \div 2

(***************************************************************************)
(* Frames.  A frame is what FrameCapture.captureFrame returns: a width, a  *)
(* height and the pixel buffer, here one <<r, g, b>> triple per pixel in   *)
(* row-major order (the alpha byte is never read).  Frames are written as  *)
(* rows of palette indices.                                                *)
(***************************************************************************)
Palette ==
    << <<0, 0, 0>>, <<1, 1, 1>>, <<2, 2, 2>>, <<3, 3, 3>>,
       <<3, 0, 0>>, <<0, 3, 0>>, <<1, 3, 1>>, <<0, 0, 3>>,
       <<4, 4, 4>>, <<5, 5, 5>>, <<6, 6, 6>>, <<7, 7, 7>>, <<8, 8, 8>> >>

\* the palette index of grey level g
GreyIndex(g) == IF g <= 3 THEN g ELSE g + 4

RECURSIVE Flatten(_)
Flatten(rows) == IF rows = << >> THEN << >> ELSE Head(rows) \o Flatten(Tail(rows))

MkFrame(rows) ==
    [ width |-> Len(rows[1]),
      height |-> Len(rows),
      data |-> LET cells == Flatten(rows)
               IN [i \in 0..(Len(cells) - 1) |-> Palette[cells[i + 1] + 1]] ]

\* a textured scene: grey pixels, whole luma levels
FrameA ==
    MkFrame(<< <<0, 1, 2, 3, 0, 2, 1>>,
               <<3, 0, 1, 0, 2, 3, 1>>,
               <<1, 2, 0, 3, 1, 0, 2>>,
               <<2, 3, 1, 0, 0, 1, 3>>,
               <<0, 2, 3, 1, 2, 0, 1>> >>)

\* the scene of FrameA moved one pixel to the right
FrameB ==
    MkFrame(<< <<1, 0, 1, 2, 3, 0, 2>>,
               <<2, 3, 0, 1, 0, 2, 3>>,
               <<0, 1, 2, 0, 3, 1, 0>>,
               <<3, 2, 3, 1, 0, 0, 1>>,
               <<1, 0, 2, 3, 1, 2, 0>> >>)

\* a uniform image: every patch has variance 0
FrameFlat ==
    MkFrame(<< <<1, 1, 1, 1, 1, 1, 1>>,
               <<1, 1, 1, 1, 1, 1, 1>>,
               <<1, 1, 1, 1, 1, 1, 1>>,
               <<1, 1, 1, 1, 1, 1, 1>>,
               <<1, 1, 1, 1, 1, 1, 1>> >>)

\* vertical stripes of period 2: a patch repeats two pixels to its left
FrameStripes ==
    MkFrame(<< <<0, 3, 0, 3, 0, 3, 0>>,
               <<1, 2, 1, 2, 1, 2, 1>>,
               <<3, 0, 3, 0, 3, 0, 3>>,
               <<0, 2, 0, 2, 0, 2, 0>>,
               <<2, 1, 2, 1, 2, 1, 2>> >>)

\* the scene of FrameA under coloured light: fractional luma levels
FrameTint ==
    MkFrame(<< <<0, 4, 6, 3, 7, 6, 5>>,
               <<3, 7, 5, 0, 6, 3, 4>>,
               <<4, 6, 0, 3, 5, 7, 6>>,
               <<6, 3, 5, 0, 7, 4, 3>>,
               <<0, 6, 3, 4, 6, 7, 5>> >>)

\* the scene of FrameA captured on a canvas one column narrower (its left
\* column is cut off)
FrameSmall ==
    MkFrame(<< <<1, 2, 3, 0, 2, 1>>,
               <<0, 1, 0, 2, 3, 1>>,
               <<2, 0, 3, 1, 0, 2>>,
               <<3, 1, 0, 0, 1, 3>>,
               <<2, 3, 1, 2, 0, 1>> >>)

\* a uniform image on the narrower canvas
FrameSmallFlat ==
    MkFrame(<< <<1, 1, 1, 1, 1, 1>>,
               <<1, 1, 1, 1, 1, 1>>,
               <<1, 1, 1, 1, 1, 1>>,
               <<1, 1, 1, 1, 1, 1>>,
               <<1, 1, 1, 1, 1, 1>> >>)

\* the frames by name
\* a canvas wider than the search radius and as high as one template: the
\* grey levels of its texture, repeated along a row and shifted from row to row
WideCells ==
    << 0, 3, 1, 4, 0, 2, 4, 1, 3, 0, 2, 2, 4, 0, 3, 1, 1, 4, 2, 0, 3, 4, 1, 2, 0, 4 >>

WideCell(r, c) == WideCells[((c + 5 * r) % Len(WideCells)) + 1]

\* the wide textured scene
FrameWide ==
    MkFrame([r \in 1..templateSize |->
               [c \in 1..WideWidth |-> GreyIndex(WideCell(r - 1, c - 1))]])

\* the wide textured scene moved one pixel to the left
FrameWideMoved ==
    MkFrame([r \in 1..templateSize |->
               [c \in 1..WideWidth |-> GreyIndex(WideCell(r - 1, c))]])

\* a uniform image on the wide canvas
FrameWideFlat ==
    MkFrame([r \in 1..templateSize |-> [c \in 1..WideWidth |-> 1]])

\* a canvas of the size of one template: a single feature
FrameSpot ==
    MkFrame(<< <<0, 1, 3>>,
               <<2, 1, 3>>,
               <<1, 3, 1>> >>)

\* the feature turned so that it correlates with FrameSpot at exactly 0.2
FrameSpotTurned ==
    MkFrame(<< <<1, 3, 3>>,
               <<1, 2, 3>>,
               <<1, 0, 1>> >>)

\* the feature of FrameSpot in brighter light: every grey level raised by 4
FrameSpotLit ==
    MkFrame(<< << 8,  9, 11>>,
               <<10,  9, 11>>,
               << 9, 11,  9>> >>)

\* the feature partly faded so that it correlates with FrameSpot at exactly 0.6
FrameSpotFaded ==
    MkFrame(<< <<0, 0, 0>>,
               <<0, 0, 2>>,
               <<0, 3, 1>> >>)

\* a canvas smaller than one template
FrameSpeck ==
    MkFrame(<< <<1, 2>>,
               <<3, 0>> >>)

Frames == [A |-> FrameA, B |-> FrameB, Flat |-> FrameFlat,
           Stripes |-> FrameStripes, Tint |-> FrameTint, Small |-> FrameSmall,
           SmallFlat |-> FrameSmallFlat, Wide |-> FrameWide, WideMoved |-> FrameWideMoved,
           WideFlat |-> FrameWideFlat, Spot |-> FrameSpot,
           SpotTurned |-> FrameSpotTurned, Speck |-> FrameSpeck,
           SpotLit |-> FrameSpotLit, SpotFaded |-> FrameSpotFaded]
FrameIds == DOMAIN Frames
NoFrame == "null"       \* FrameCapture.imageData before the first capture

(***************************************************************************)
(* Frame preprocessing (prepareFrameOptimizations) and patch extraction.   *)
(***************************************************************************)
\* getGrayscale / the conversion loop: 0.299 R + 0.587 G + 0.114 B
getGrayscale(rgb) == RoundDiv(299 * rgb[1] + 587 * rgb[2] + 114 * rgb[3], 1000 \div LumaQ)

\* the Float32Array the conversion loop fills for a frame, one sample per pixel
GrayOf == [f \in FrameIds |->
             [i \in DOMAIN Frames[f].data |-> getGrayscale(Frames[f].data[i])]]

\* a store into a Uint8Array: the fraction is dropped, the rest taken modulo 256
ToUint8(g) == (g \div LumaQ) % 256

\* the frame cache after prepareFrameOptimizations(frame f) at frame count fc
PreparedCache(f, fc) ==
    [width |-> Frames[f].width, height |-> Frames[f].height, grayscale |-> f, frameId |-> fc]

\* the row-major footprint offsets of a template: rows y - halfSize .. y + halfSize
Footprint ==
    [k \in 0..(templateSizeSq - 1) |->
        [dx |-> (k % templateSize) - halfSize, dy |-> (k \div templateSize) - halfSize]]

\* the value a Uint8Array keeps when buffer[i] is stored, for a fixed-point index:
\* a fractional or out-of-range index reads undefined, which is stored as 0
StoredSample(buf, index) ==
    IF index % Q = 0 /\ Px(index) \in DOMAIN buf THEN ToUint8(buf[Px(index)]) ELSE 0

\* the bounds test with the far edges compared by > instead of >=
OutOfBoundsLate(centerX, centerY, width, height) ==
    \/ centerX - halfSize * Q < 0 \/ centerX + halfSize * Q > width * Q
    \/ centerY - halfSize * Q < 0 \/ centerY + halfSize * Q > height * Q

\* the bounds test of both extraction routines (fixed-point centre)
OutOfBounds(centerX, centerY, width, height) ==
    \/ centerX - halfSize * Q < 0 \/ centerX + halfSize * Q >= width * Q
    \/ centerY - halfSize * Q < 0 \/ centerY + halfSize * Q >= height * Q

\* extractTemplateOptimized: the patch centred at (centerX, centerY), or << >> for null
extractTemplateOptimized(cache, centerX, centerY) ==
    IF OutOfBounds(centerX, centerY, cache.width, cache.height)
    THEN << >>
    ELSE [k \in 1..templateSizeSq |->
            StoredSample(GrayOf[cache.grayscale],
                         (centerY + Footprint[k - 1].dy * Q) * cache.width
                            + centerX + Footprint[k - 1].dx * Q)]

\* extractTemplate: the fallback, reading the pixel buffer of frame f directly
extractTemplate(f, centerX, centerY) ==
    IF f = NoFrame THEN << >>
    ELSE IF OutOfBounds(centerX, centerY, Frames[f].width, Frames[f].height)
    THEN << >>
    ELSE [k \in 1..templateSizeSq |->
            StoredSample(GrayOf[f],
                         (centerY + Footprint[k - 1].dy * Q) * Frames[f].width
                            + centerX + Footprint[k - 1].dx * Q)]

(***************************************************************************)
(* Normalised cross-correlation (fastTemplateMatch, normalizedCorrelation).*)
(***************************************************************************)
NaN == -2 * Q           \* a score that compares false with everything
NaNSample == 0 - 1      \* a sample read outside the buffer (undefined)

RECURSIVE SumTo(_, _)
SumTo(f, k) == IF k = 0 THEN 0 ELSE f[k] + SumTo(f, k - 1)

RECURSIVE CrossTo(_, _, _)
CrossTo(f, g, k) == IF k = 0 THEN 0 ELSE f[k] * g[k] + CrossTo(f, g, k - 1)

RECURSIVE Scaled(_, _)
\* d and m multiplied by 4^j and 2^j for the first j with d * 4^j >= 2^28
Scaled(d, m) ==
    IF d >= 268435456 THEN << d, m >>
    ELSE IF d < 1048576 THEN Scaled(d * 256, m * 16)
    ELSE Scaled(d * 4, m * 2)

\* covar / sqrt(templateVar * imageVar) in units of 1/Q, from the three
\* moments multiplied by n^2; the quotient is cut towards zero
NccScore(tv, iv, cv) ==
    LET sc == Scaled(tv * iv, Abs(cv))
        mag == (sc[2] * Q) \div ISqrt(sc[1])
    IN IF cv >= 0 THEN mag ELSE -mag

\* the sample of frame f's luma buffer at index i
GraySample(f, i) == IF i \in DOMAIN GrayOf[f] THEN GrayOf[f][i] ELSE NaNSample

\* the image side of the single-pass sums, for every frame and every whole-pixel
\* centre index cy * width + cx: the samples of the footprint, their sum and
\* their sum of squares
ImagePatch ==
    [f \in FrameIds |->
       [i \in (-(halfSize * Frames[f].width + halfSize))
                ..(Frames[f].width * Frames[f].height + halfSize * Frames[f].width + halfSize) |->
          LET img == [k \in 1..templateSizeSq |->
                        GraySample(f, i + Footprint[k - 1].dy * Frames[f].width
                                        + Footprint[k - 1].dx)]
          IN [ img |-> img,
               defined |-> \A k \in 1..templateSizeSq : img[k] # NaNSample,
               imageSum |-> SumTo(img, templateSizeSq),
               imageSqSum |-> SumTo([k \in 1..templateSizeSq |-> img[k] * img[k]],
                                    templateSizeSq) ]]]

\* the template side of the single-pass sums
TemplateSums(template) ==
    [ template |-> template,
      templateSum |-> SumTo(template, templateSizeSq),
      templateSqSum |-> SumTo([k \in 1..templateSizeSq |-> template[k] * template[k]],
                              templateSizeSq) ]

\* a score without the variance guard: 0 / 0 is NaN
PatchScoreUnguarded(ts, patch) ==
    LET n == templateSizeSq
        crossSum == CrossTo(ts.template, patch.img, n)
        templateVar == n * ts.templateSqSum - ts.templateSum * ts.templateSum
        imageVar == n * patch.imageSqSum - patch.imageSum * patch.imageSum
        covar == n * crossSum - ts.templateSum * patch.imageSum
    IN IF templateVar <= 0 \/ imageVar <= 0 \/ ~patch.defined THEN NaN
       ELSE NccScore(templateVar, imageVar, covar)

\* the score from the sums of the template and of the image patch
PatchScore(ts, patch) ==
    LET n == templateSizeSq
        crossSum == CrossTo(ts.template, patch.img, n)
        templateVar == n * ts.templateSqSum - ts.templateSum * ts.templateSum
        imageVar == n * patch.imageSqSum - patch.imageSum * patch.imageSum
        covar == n * crossSum - ts.templateSum * patch.imageSum
    IN IF templateVar <= 0 THEN 0
       ELSE IF ~patch.defined THEN NaN      \* NaN <= 0 is false
       ELSE IF imageVar <= 0 THEN 0
       ELSE NccScore(templateVar, imageVar, covar)

\* the single-pass sums and the score, for luma buffer f of row length width
Correlation(ts, f, width, centerX, centerY) ==
    PatchScore(ts, ImagePatch[f][Px(MathRound(centerY)) * width + Px(MathRound(centerX))])

fastTemplateMatch(cache, template, centerX, centerY) ==
    Correlation(TemplateSums(template), cache.grayscale, cache.width, centerX, centerY)

normalizedCorrelation(template, centerX, centerY, f, width) ==
    Correlation(TemplateSums(template), f, width, centerX, centerY)

(***************************************************************************)
(* The search (findBestMatchWithCache, findBestTemplateMatch).  A search   *)
(* state holds the loop's variables; has = FALSE is bestMatch = null.      *)
(***************************************************************************)
\* no match yet; besides the search's own variables the record keeps a history of the
\* search: hitAt (the number of coarse candidates evaluated when one first scored above
\* 0.9, 0 if none did), coarseX, coarseY and coarseScore (the best at the end of the
\* coarse pass), fineCount (candidates of the fine pass), maxSeen (the highest score
\* computed), inside (every centre scored had its footprint in the frame), the
\* centre and radius the search was called with, and, once updateSingleTracker has
\* chosen the match it ends with, whether the retry ran and what the first search found
NoMatch ==
    [ has |-> FALSE, x |-> 0, y |-> 0, confidence |-> 0, bestScore |-> -Q, searchCount |-> 0,
      hitAt |-> 0, coarseX |-> 0, coarseY |-> 0, coarseScore |-> -Q, fineCount |-> 0,
      maxSeen |-> -Q, inside |-> TRUE, centerX |-> 0, centerY |-> 0, radius |-> 0,
      retried |-> FALSE, firstHas |-> FALSE, firstConfidence |-> 0, firstInside |-> TRUE ]

\* the footprint of the pixel fastTemplateMatch rounds candidate (x, y) to lies in frame f
CentreInside(f, x, y) ==
    /\ Px(MathRound(x)) - halfSize >= 0
    /\ Px(MathRound(x)) + halfSize <= Frames[f].width - 1
    /\ Px(MathRound(y)) - halfSize >= 0
    /\ Px(MathRound(y)) + halfSize <= Frames[f].height - 1

\* the history of the search after candidate (x, y) of that score was evaluated
Seen(st, f, x, y, score, fine) ==
    [st EXCEPT !.hitAt = IF ~fine /\ @ = 0 /\ score > (9 * Q) \div 10
                         THEN st.searchCount + 1 ELSE @,
               !.fineCount = IF fine THEN @ + 1 ELSE @,
               !.maxSeen = Max(@, score),
               !.inside = @ /\ CentreInside(f, x, y)]

\* the search window with a coarse step of a tenth of the radius
SearchWindowCoarse(width, height, searchCenterX, searchCenterY, radius) ==
    LET left == Max(halfSize * Q, searchCenterX - radius)
        right == Min((width - halfSize - 1) * Q, searchCenterX + radius)
        top == Max(halfSize * Q, searchCenterY - radius)
        bottom == Min((height - halfSize - 1) * Q, searchCenterY + radius)
    IN [ searchLeft |-> left, searchRight |-> right,
         searchTop |-> top, searchBottom |-> bottom,
         step |-> Max(Q, (radius \div (10 * Q)) * Q),
         maxSearches |-> MulQ(right - left + Q, bottom - top + Q) ]

\* a search window that is not clipped to the frame on the right
SearchWindowOpenRight(width, height, searchCenterX, searchCenterY, radius) ==
    LET left == Max(halfSize * Q, searchCenterX - radius)
        right == searchCenterX + radius
        top == Max(halfSize * Q, searchCenterY - radius)
        bottom == Min((height - halfSize - 1) * Q, searchCenterY + radius)
    IN [ searchLeft |-> left, searchRight |-> right,
         searchTop |-> top, searchBottom |-> bottom,
         step |-> Max(Q, (radius \div (20 * Q)) * Q),
         maxSearches |-> MulQ(right - left + Q, bottom - top + Q) ]

\* the search window and step for a rounded centre and a radius
SearchWindow(width, height, searchCenterX, searchCenterY, radius) ==
    LET left == Max(halfSize * Q, searchCenterX - radius)
        right == Min((width - halfSize - 1) * Q, searchCenterX + radius)
        top == Max(halfSize * Q, searchCenterY - radius)
        bottom == Min((height - halfSize - 1) * Q, searchCenterY + radius)
    IN [ searchLeft |-> left, searchRight |-> right,
         searchTop |-> top, searchBottom |-> bottom,
         step |-> Max(Q, (radius \div (20 * Q)) * Q),
         maxSearches |-> MulQ(right - left + Q, bottom - top + Q) ]

\* the loop guard "searchCount < maxSearches" (the cached search only)
WithinBudget(w, st, cached) == ~cached \/ st.searchCount * Q < w.maxSearches

RECURSIVE CoarseRow(_, _, _, _, _, _, _, _)
\* the body of the coarse pass's inner loop for candidate (x, y) of that score,
\* and the rest of the row
CoarseStep(ts, f, width, w, cached, x, y, st, score) ==
    LET counted == [Seen(st, f, x, y, score, FALSE) EXCEPT !.searchCount = @ + 1]
        better == [counted EXCEPT !.has = TRUE, !.x = x, !.y = y,
                                  !.confidence = score, !.bestScore = score]
    IN IF score > st.bestScore
       THEN IF cached /\ score > (9 * Q) \div 10
            THEN better                \* break: leaves this row only
            ELSE CoarseRow(ts, f, width, w, cached, x + w.step, y, better)
       ELSE CoarseRow(ts, f, width, w, cached, x + w.step, y, counted)

\* the inner loop of the coarse pass from column x of row y
CoarseRow(ts, f, width, w, cached, x, y, st) ==
    IF ~(x <= w.searchRight /\ WithinBudget(w, st, cached)) THEN st
    ELSE CoarseStep(ts, f, width, w, cached, x, y, st, Correlation(ts, f, width, x, y))

RECURSIVE CoarseRows(_, _, _, _, _, _, _)
\* the outer loop of the coarse pass from row y
CoarseRows(ts, f, width, w, cached, y, st) ==
    IF ~(y <= w.searchBottom /\ WithinBudget(w, st, cached)) THEN st
    ELSE CoarseRows(ts, f, width, w, cached, y + w.step,
                    CoarseRow(ts, f, width, w, cached, w.searchLeft, y, st))

\* a refine window of the coarse step alone
RefineWindowNarrow(w, st) ==
    [ refineLeft |-> Max(w.searchLeft, st.x - w.step),
      refineRight |-> Min(w.searchRight, st.x + w.step),
      refineTop |-> Max(w.searchTop, st.y - w.step),
      refineBottom |-> Min(w.searchBottom, st.y + w.step) ]

\* the refine window around the coarse best
RefineWindow(w, st) ==
    LET refineRadius == Max(2 * Q, w.step)
    IN [ refineLeft |-> Max(w.searchLeft, st.x - refineRadius),
         refineRight |-> Min(w.searchRight, st.x + refineRadius),
         refineTop |-> Max(w.searchTop, st.y - refineRadius),
         refineBottom |-> Min(w.searchBottom, st.y + refineRadius) ]

\* the body of the fine pass's loop for candidate (x, y) of that score
FineStep(f, st, x, y, score) ==
    IF score > st.bestScore
    THEN [Seen(st, f, x, y, score, TRUE) EXCEPT
              !.x = x, !.y = y, !.confidence = score, !.bestScore = score]
    ELSE Seen(st, f, x, y, score, TRUE)

RECURSIVE FineRow(_, _, _, _, _, _, _)
FineRow(ts, f, width, r, x, y, st) ==
    IF x > r.refineRight THEN st
    ELSE FineRow(ts, f, width, r, x + Q, y,
                 FineStep(f, st, x, y, Correlation(ts, f, width, x, y)))

RECURSIVE FineRows(_, _, _, _, _, _)
FineRows(ts, f, width, r, y, st) ==
    IF y > r.refineBottom THEN st
    ELSE FineRows(ts, f, width, r, y + Q,
                  FineRow(ts, f, width, r, r.refineLeft, y, st))

\* both passes over luma buffer f; cached selects the early termination and the budget
\* the fine pass over refine window r
FinePass(ts, f, width, r, coarse) == FineRows(ts, f, width, r, r.refineTop, coarse)

\* the fine pass, when the coarse pass ended with a match scoring above 0.3
Refined(ts, f, width, w, coarse) ==
    IF coarse.has /\ coarse.bestScore > (3 * Q) \div 10
    THEN FinePass(ts, f, width, RefineWindow(w, coarse), coarse)
    ELSE coarse

\* the search state at the end of the coarse pass, with its best on record
CoarseDone(coarse) ==
    [coarse EXCEPT !.coarseX = coarse.x, !.coarseY = coarse.y,
                   !.coarseScore = coarse.bestScore]

\* both passes over search window w
SearchIn(ts, f, width, w, cached) ==
    Refined(ts, f, width, w,
            CoarseDone(CoarseRows(ts, f, width, w, cached, w.searchTop, NoMatch)))

\* the result of a search with the centre and radius it was called with on record
Called(st, searchCenterX, searchCenterY, radius) ==
    [st EXCEPT !.centerX = searchCenterX, !.centerY = searchCenterY, !.radius = radius]

BestMatch(template, f, width, height, searchCenterX, searchCenterY, radius, cached) ==
    Called(SearchIn(TemplateSums(template), f, width,
                    SearchWindow(width, height, searchCenterX, searchCenterY, radius), cached),
           searchCenterX, searchCenterY, radius)

findBestMatchWithCache(cache, tracker, searchCenterX, searchCenterY, radius) ==
    BestMatch(tracker.template, cache.grayscale, cache.width, cache.height,
              searchCenterX, searchCenterY, radius, TRUE)

\* the fallback search on the frame passed to the last update (frameData)
findBestTemplateMatch(tracker, centerPos, frameData) ==
    IF frameData = NoFrame
    THEN Called(NoMatch, MathRound(centerPos.x), MathRound(centerPos.y),
                Min(tracker.searchRadius, 50 * Q))
    ELSE BestMatch(tracker.template, frameData, Frames[frameData].width,
                   Frames[frameData].height, MathRound(centerPos.x), MathRound(centerPos.y),
                   Min(tracker.searchRadius, 50 * Q), FALSE)

findBestTemplateMatchOptimized(cache, frameCount, currentFrameData, tracker, centerPos) ==
    IF cache.frameId = frameCount /\ cache.grayscale # NoFrame
    THEN findBestMatchWithCache(cache, tracker, MathRound(centerPos.x), MathRound(centerPos.y),
                                Min(tracker.searchRadius, 50 * Q))
    ELSE findBestTemplateMatch(tracker, centerPos, currentFrameData)

(***************************************************************************)
(* The per-target transitions.                                             *)
(***************************************************************************)
\* the radius of the expansion retry: searchRadius * 1.5
ExpandedRadius(radius) == RoundDiv(radius * 3, 2)

\* the accept rule as a plain replacement of the confidence by the match's
AcceptConfidenceReplaced(confidence, m) == Min(Q, m)

\* tracker.confidence after an accepted match of confidence m
AcceptConfidence(confidence, m) == Min(Q, RoundDiv(95 * confidence + 5 * m, 100))

\* the reject rule without its floor
LostConfidenceUnfloored(confidence) == confidence - Q \div 50

\* tracker.confidence after a rejected frame
LostConfidence(confidence) == Max(Q \div 10, confidence - Q \div 50)

\* a blend with the weights exchanged: velocity * 0.3 + newVelocity * 0.7
BlendVelocityEager(v, nv) == RoundDiv(3 * v + 7 * nv, 10)

\* velocity * 0.7 + newVelocity * (1 - 0.7)
BlendVelocity(v, nv) == RoundDiv(7 * v + 3 * nv, 10)

\* one template sample after blending: Math.round(old * (1 - b) + patch * b)
BlendSample(old, patch, blendFactor) == RoundDiv(old * (Q - blendFactor) + patch * blendFactor, Q)

\* the trail rule shifting only once the trail is longer than trailLength
PushTrailLate(trail, pos) ==
    IF Len(trail) > trailLength
    THEN [i \in 1..Len(trail) |->
            IF i <= trailLength - 1 THEN trail[i + 1]
            ELSE IF i = trailLength THEN pos
            ELSE trail[i]]
    ELSE Append(trail, pos)

\* a trail rule that overwrites the newest entry of a full trail
PushTrailDropNewest(trail, pos) ==
    IF Len(trail) >= trailLength
    THEN [trail EXCEPT ![trailLength] = pos]
    ELSE Append(trail, pos)

\* the trail after an accepted match (lines 671-682)
PushTrail(trail, pos) ==
    IF Len(trail) >= trailLength
    THEN [i \in 1..Len(trail) |->
            IF i <= trailLength - 1 THEN trail[i + 1]
            ELSE IF i = trailLength THEN pos
            ELSE trail[i]]
    ELSE Append(trail, pos)

\* a refresh rule that fires on the fourth accepted match
shouldUpdateEarly(framesSinceUpdate, m) == framesSinceUpdate >= 4 /\ m > (6 * Q) \div 10

\* whether the adaptive template update runs (lines 629-632)
shouldUpdate(framesSinceUpdate, m) == framesSinceUpdate >= 5 /\ m > (6 * Q) \div 10

updateTrackerWithMatchOptimized(cache, frameCount, tracker, match, prevPos) ==
    LET actualPos == [x |-> match.x, y |-> match.y]
        velocity == [x |-> BlendVelocity(tracker.velocity.x, actualPos.x - prevPos.x),
                     y |-> BlendVelocity(tracker.velocity.y, actualPos.y - prevPos.y)]
        currentPos == [x |-> RoundDiv(tracker.currentPos.x + actualPos.x, 2),
                       y |-> RoundDiv(tracker.currentPos.y + actualPos.y, 2)]
        confidence == AcceptConfidence(tracker.confidence, match.confidence)
        counted == tracker.framesSinceUpdate + 1
        newTemplate == IF shouldUpdate(counted, match.confidence)
                       THEN extractTemplateOptimized(cache, actualPos.x, actualPos.y)
                       ELSE << >>
        blendFactor == RoundDiv(15 * match.confidence, 100)
    IN [tracker EXCEPT
          !.actualPos = actualPos,
          !.velocity = velocity,
          !.currentPos = currentPos,
          !.lostFrames = 0,
          !.confidence = confidence,
          !.lastSeen = frameCount,
          !.framesSinceUpdate = IF newTemplate # << >> THEN 0 ELSE counted,
          !.template = IF newTemplate # << >>
                       THEN [k \in 1..Len(tracker.template) |->
                               BlendSample(tracker.template[k], newTemplate[k], blendFactor)]
                       ELSE tracker.template,
          !.searchRadius = Max(15 * Q, searchRadius - 10 * confidence),
          !.trail = PushTrail(tracker.trail, currentPos)]

\* a reject that decays the velocity before it moves the target
updateTrackerLostDecayFirst(tracker, prevPos) ==
    LET velocity == [x |-> MulQ(tracker.velocity.x, velocityDecay),
                     y |-> MulQ(tracker.velocity.y, velocityDecay)]
        actualPos == [x |-> prevPos.x + velocity.x, y |-> prevPos.y + velocity.y]
    IN [tracker EXCEPT
          !.actualPos = actualPos,
          !.currentPos = actualPos,
          !.velocity = velocity,
          !.lostFrames = @ + 1,
          !.confidence = LostConfidence(@),
          !.searchRadius = Min(60 * Q, @ + 3 * Q),
          !.isActive = IF tracker.lostFrames + 1 > maxLostFrames THEN FALSE ELSE @]

\* a reject that smooths the displayed position as an accept does
updateTrackerLostSmoothed(tracker, prevPos) ==
    LET actualPos == [x |-> prevPos.x + tracker.velocity.x, y |-> prevPos.y + tracker.velocity.y]
    IN [tracker EXCEPT
          !.actualPos = actualPos,
          !.currentPos = [x |-> RoundDiv(tracker.currentPos.x + actualPos.x, 2),
                          y |-> RoundDiv(tracker.currentPos.y + actualPos.y, 2)],
          !.velocity = [x |-> MulQ(tracker.velocity.x, velocityDecay),
                        y |-> MulQ(tracker.velocity.y, velocityDecay)],
          !.lostFrames = @ + 1,
          !.confidence = LostConfidence(@),
          !.searchRadius = Min(60 * Q, @ + 3 * Q),
          !.isActive = IF tracker.lostFrames + 1 > maxLostFrames THEN FALSE ELSE @]

\* a reject that deactivates the target when lostFrames reaches maxLostFrames
updateTrackerLostEarly(tracker, prevPos) ==
    LET actualPos == [x |-> prevPos.x + tracker.velocity.x, y |-> prevPos.y + tracker.velocity.y]
    IN [tracker EXCEPT
          !.actualPos = actualPos,
          !.currentPos = actualPos,
          !.velocity = [x |-> MulQ(tracker.velocity.x, velocityDecay),
                        y |-> MulQ(tracker.velocity.y, velocityDecay)],
          !.lostFrames = @ + 1,
          !.confidence = LostConfidence(@),
          !.searchRadius = Min(60 * Q, @ + 3 * Q),
          !.isActive = IF tracker.lostFrames + 1 >= maxLostFrames THEN FALSE ELSE @]

updateTrackerLostOptimized(tracker, prevPos) ==
    LET actualPos == [x |-> prevPos.x + tracker.velocity.x, y |-> prevPos.y + tracker.velocity.y]
    IN [tracker EXCEPT
          !.actualPos = actualPos,
          !.currentPos = actualPos,
          !.velocity = [x |-> MulQ(tracker.velocity.x, velocityDecay),
                        y |-> MulQ(tracker.velocity.y, velocityDecay)],
          !.lostFrames = @ + 1,
          !.confidence = LostConfidence(@),
          !.searchRadius = Min(60 * Q, @ + 3 * Q),
          !.isActive = IF tracker.lostFrames + 1 > maxLostFrames THEN FALSE ELSE @]

\* whether updateSingleTracker runs the expansion retry after the first search
Retries(tracker, first) ==
    (~first.has \/ first.confidence < confidenceThreshold) /\ tracker.lostFrames < 5

\* the match updateSingleTracker ends with, with the first search's outcome on record
Attempted(match, first, retried) ==
    [match EXCEPT !.retried = retried, !.firstHas = first.has,
                  !.firstConfidence = first.confidence, !.firstInside = first.inside]

\* a retry centred on the predicted position
RetriedAhead(cache, frameCount, currentFrameData, tracker, first) ==
    IF Retries(tracker, first)
    THEN Attempted(findBestTemplateMatchOptimized(
                       cache, frameCount, currentFrameData,
                       [tracker EXCEPT !.searchRadius = ExpandedRadius(tracker.searchRadius)],
                       [x |-> tracker.actualPos.x + tracker.velocity.x,
                        y |-> tracker.actualPos.y + tracker.velocity.y]),
                   first, TRUE)
    ELSE Attempted(first, first, FALSE)

\* the match updateSingleTracker ends with: the first search's or the retry's
Retried(cache, frameCount, currentFrameData, tracker, first) ==
    IF Retries(tracker, first)
    THEN Attempted(findBestTemplateMatchOptimized(
                       cache, frameCount, currentFrameData,
                       [tracker EXCEPT !.searchRadius = ExpandedRadius(tracker.searchRadius)],
                       tracker.actualPos),
                   first, TRUE)
    ELSE Attempted(first, first, FALSE)

FinalMatch(cache, frameCount, currentFrameData, tracker) ==
    Retried(cache, frameCount, currentFrameData, tracker,
            findBestTemplateMatchOptimized(
                cache, frameCount, currentFrameData, tracker,
                [x |-> tracker.actualPos.x + tracker.velocity.x,
                 y |-> tracker.actualPos.y + tracker.velocity.y]))

\* an accept rule without the confidence threshold
AcceptsAnyMatch(match) == match.has

\* an accept rule that takes a match at the threshold
AcceptsAtThreshold(match) == match.has /\ match.confidence >= confidenceThreshold

\* whether the final match is accepted (line 360)
Accepts(match) == match.has /\ match.confidence > confidenceThreshold

\* an update that leaves the retry's radius on the target
SettledExpanded(cache, frameCount, tracker, match, prevPos) ==
    [ match |-> match,
      tracker |-> IF Accepts(match)
                  THEN updateTrackerWithMatchOptimized(cache, frameCount, tracker,
                                                       match, prevPos)
                  ELSE updateTrackerLostOptimized(
                           [tracker EXCEPT !.searchRadius =
                                IF match.retried THEN ExpandedRadius(@) ELSE @],
                           prevPos) ]

\* the branch updateSingleTracker takes on the match it ended with (lines 360-367)
Settled(cache, frameCount, tracker, match, prevPos) ==
    [ match |-> match,
      tracker |-> IF Accepts(match)
                  THEN updateTrackerWithMatchOptimized(cache, frameCount, tracker,
                                                       match, prevPos)
                  ELSE updateTrackerLostOptimized(tracker, prevPos) ]

\* updateSingleTracker: the tracker after the frame, with the match it ended with
updateSingleTracker(cache, frameCount, currentFrameData, tracker) ==
    Settled(cache, frameCount, tracker,
            FinalMatch(cache, frameCount, currentFrameData, tracker), tracker.actualPos)

\* a compaction that collects the survivors while iterating backwards
CompactReversed(trackers) ==
    LET kept == SelectSeq(trackers, LAMBDA t : t.isActive)
    IN [i \in 1..Len(kept) |-> kept[Len(kept) + 1 - i]]

\* updateTracking without its compaction loop
CompactNone(trackers) == trackers

\* the compaction loop of updateTracking: the trackers still active, in order
Compact(trackers) == SelectSeq(trackers, LAMBDA t : t.isActive)

\* a new tracker whose trail starts empty
NewTrackerNoTrail(id, template, x, y, frameCount) ==
    [ id |-> id,
      template |-> template,
      currentPos |-> [x |-> x, y |-> y],
      previousPos |-> [x |-> x, y |-> y],
      actualPos |-> [x |-> x, y |-> y],
      velocity |-> [x |-> 0, y |-> 0],
      lostFrames |-> 0,
      trail |-> << >>,
      isActive |-> TRUE,
      confidence |-> Q,
      lastSeen |-> frameCount,
      searchRadius |-> searchRadius,
      framesSinceUpdate |-> 0 ]

\* the tracker addTemplate builds for a template at whole pixel (x, y)
NewTracker(id, template, x, y, frameCount) ==
    [ id |-> id,
      template |-> template,
      currentPos |-> [x |-> x, y |-> y],
      previousPos |-> [x |-> x, y |-> y],
      actualPos |-> [x |-> x, y |-> y],
      velocity |-> [x |-> 0, y |-> 0],
      lostFrames |-> 0,
      trail |-> << [x |-> x, y |-> y] >>,
      isActive |-> TRUE,
      confidence |-> Q,
      lastSeen |-> frameCount,
      searchRadius |-> searchRadius,
      framesSinceUpdate |-> 0 ]

(***************************************************************************)
(* State.                                                                  *)
(***************************************************************************)
VARIABLES
    trackedTemplates,   \* TemplateTracker.trackedTemplates
    nextId,             \* TemplateTracker.nextId
    frameCount,         \* TemplateTracker.frameCount
    frameCache,         \* TemplateTracker.frameCache (grayscale: the frame it was filled from)
    currentFrameData,   \* TemplateTracker.currentFrameData
    imageData,          \* FrameCapture.imageData: the frame captured last, or NoFrame
    scene,              \* what the camera is pointed at (fixes the frames it can deliver)
    issued,             \* history: the ids addTemplate has returned, with the frame of each
    anchor,             \* history: per id, the frame it was created or last accepted on
    last                \* history: the operation that ran last and what it did

vars == << trackedTemplates, nextId, frameCount, frameCache, currentFrameData,
           imageData, scene, issued, anchor, last >>

Scenes == {"live", "tinted", "striped", "still", "dark", "crowd", "resized", "spot"}

\* the frame of a dark scene at which the lens is uncovered for a moment
GlimpseFrame == maxLostFrames + 2

\* the frames the camera can deliver next:
\*   live     a textured scene that may move or be covered
\*   tinted   a textured scene whose light may change colour
\*   striped  a periodic pattern
\*   still    a textured scene that does not change
\*   dark     a textured scene, then the lens covered, uncovered for at most
\*            one frame after maxLostFrames covered frames
\*   crowd    a textured scene that does not change, with many targets
\*   resized  a textured scene on a canvas whose width may change
\*   spot     a single feature filling the canvas, that may turn, on a canvas
\*            that may shrink below the size of a template
\*   lit      a single feature filling the canvas, that may be lit more brightly
\*            or fade
\*   pan      a textured scene on the wide canvas, moving one pixel to the left
\*            and back from frame to frame
\*   wide     a textured scene on a canvas wider than the search radius, that
\*            may be covered
SceneFrames ==
    CASE scene = "live" -> IF frameCount < MaxLiveFrames THEN {"A", "B", "Flat"} ELSE {}
      [] scene = "tinted" -> IF frameCount < MaxLiveFrames THEN {"A", "Tint"} ELSE {}
      [] scene = "striped" -> IF frameCount < MaxLiveFrames THEN {"Stripes"} ELSE {}
      [] scene = "still" -> IF frameCount < MaxStillFrames THEN {"A"} ELSE {}
      [] scene = "crowd" -> IF frameCount < MaxCrowdFrames THEN {"A"} ELSE {}
      [] scene = "resized" -> IF frameCount < MaxResizedFrames THEN {"A", "Small", "SmallFlat"} ELSE {}
      [] scene = "spot" -> IF frameCount < MaxSpotFrames THEN {"Spot", "SpotTurned", "Speck"} ELSE {}
      [] scene = "lit" -> IF frameCount < MaxLitFrames THEN {"Spot", "SpotLit", "SpotFaded"} ELSE {}
      [] scene = "pan" -> IF frameCount >= MaxPanFrames THEN {}
                          ELSE IF frameCount % 2 = 0 THEN {"Wide"} ELSE {"WideMoved"}
      [] scene = "wide" -> IF frameCount < MaxWideFrames THEN {"Wide", "WideFlat"} ELSE {}
      [] scene = "dark" ->
            IF frameCount >= MaxDarkFrames THEN {}
            ELSE IF frameCount = 0 \/ frameCount + 1 = GlimpseFrame THEN {"A", "Flat"}
            ELSE {"Flat"}

\* the canvas coordinates a click can have: inside, on and across the edges
\* of the region where a whole footprint fits, whole and fractional
Clicks ==
    LET W == FrameA.width
        H == FrameA.height
    IN { << 3 * Q + 400, 2 * Q >>,
         << halfSize * Q - 500, halfSize * Q >>,
         << halfSize * Q - 501, 2 * Q >>,
         << (W - halfSize) * Q - 500, 2 * Q >>,
         << (W - halfSize) * Q - 501, (H - halfSize) * Q - 501 >>,
         << 3 * Q, (H - halfSize) * Q - 500 >>,
         << 3 * Q, halfSize * Q - 501 >> }

\* the clicks of a scene: a crowd is made by clicking on one feature again
\* and again
SceneClicks ==
    CASE scene = "crowd" -> { << 3 * Q + 400, 2 * Q >> }
      [] scene \in {"spot", "lit"} -> { << Q, Q >> }
      [] scene \in {"wide", "pan"} -> { << (WideWidth - halfSize - 2) * Q, halfSize * Q >>,
                             << (WideWidth \div 2) * Q - 300, halfSize * Q >> }
      [] OTHER -> Clicks

\* the number of targets the user creates in a scene
SceneTargets ==
    CASE scene = "crowd" -> MaxCrowd
      [] scene = "resized" -> MaxResizedTargets
      [] scene = "wide" -> MaxWideTargets
      [] scene = "spot" -> MaxSpotTargets
      [] scene = "lit" -> MaxLitTargets
      [] scene = "pan" -> MaxPanTargets
      [] OTHER -> MaxTargets

\* last: op is the operation; for "create", (x, y) is the click, frame the frame
\* captured last and ret the id returned (0 for null); for "update", frame is the
\* frame passed, results holds per target (in list order before the update) the
\* tracker before (was) and after (now), the final match, the luma buffer its
\* searches read and the anchor frame before, and removed the ids the compaction dropped; cacheBefore is the frame
\* cache the operation started with and converted whether it ran the luma
\* conversion loop
NoOp == [op |-> "init", ret |-> 0, frame |-> NoFrame, x |-> 0, y |-> 0,
         results |-> << >>, removed |-> {},
         cacheBefore |-> [width |-> 0, height |-> 0, grayscale |-> NoFrame, frameId |-> -1],
         converted |-> FALSE]

Init ==
    /\ trackedTemplates = << >>
    /\ nextId = 1
    /\ frameCount = 0
    /\ frameCache = [width |-> 0, height |-> 0, grayscale |-> NoFrame, frameId |-> -1]
    /\ currentFrameData = NoFrame
    /\ imageData = NoFrame
    /\ scene \in Scenes
    /\ issued = << >>
    /\ anchor = << >>
    /\ last = NoOp

\* the tracker at construction, in front of a wide scene or a single feature on a
\* canvas of its size
InitWide ==
    /\ trackedTemplates = << >>
    /\ nextId = 1
    /\ frameCount = 0
    /\ frameCache = [width |-> 0, height |-> 0, grayscale |-> NoFrame, frameId |-> -1]
    /\ currentFrameData = NoFrame
    /\ imageData = NoFrame
    /\ scene \in {"wide", "spot", "lit", "pan"}
    /\ issued = << >>
    /\ anchor = << >>
    /\ last = NoOp

(***************************************************************************)
(* Operations.                                                             *)
(***************************************************************************)
\* a preprocessor that allocates once: a later frame of another size is
\* converted into a cache that keeps the first frame's dimensions
prepareFrameKeepsSize(f, cache, count) ==
    IF f = NoFrame THEN cache
    ELSE IF cache.grayscale = NoFrame THEN PreparedCache(f, count)
    ELSE [PreparedCache(f, count) EXCEPT !.width = cache.width, !.height = cache.height]

\* a preprocessor that converts only when it allocates: a cache of the right
\* size is tagged with the new sequence number and kept
prepareFrameRetagged(f, cache, count) ==
    IF f = NoFrame THEN cache
    ELSE IF /\ cache.grayscale # NoFrame
            /\ cache.width = Frames[f].width
            /\ cache.height = Frames[f].height
         THEN [cache EXCEPT !.frameId = count]
         ELSE PreparedCache(f, count)

\* prepareFrameOptimizations(frameCapture): the cache afterwards (unchanged when
\* getFrameData returns null)
prepareFrameOptimizations(f, cache, count) ==
    IF f = NoFrame THEN cache ELSE PreparedCache(f, count)

\* whether prepareFrameOptimizations runs its luma conversion loop: the loop is
\* guarded by the null return only, whatever frameId the cache carries
Converts(f, cache, count) == f # NoFrame

\* the fallback of addTemplate when the optimized extraction gave null
OrFallback(optimized, x, y) ==
    IF optimized # << >> THEN optimized ELSE extractTemplate(imageData, x, y)

\* the template addTemplate ends with for a click rounded to (x, y): << >> when it fails
addTemplateTemplate(x, y) ==
    OrFallback(IF imageData # NoFrame
               THEN extractTemplateOptimized(
                        prepareFrameOptimizations(imageData, frameCache, frameCount), x, y)
               ELSE << >>,
               x, y)

\* an id counter set from the length of the list before the push
IdAfterByLength(id, template) ==
    IF template = << >> THEN id ELSE Len(trackedTemplates) + 1

\* an id counter that advances before the null return
IdAfterAlways(id, template) == id + 1

\* nextId after addTemplate: "id: this.nextId++" runs only past the null return
IdAfter(id, template) == IF template = << >> THEN id ELSE id + 1

\* trackedTemplates after addTemplate: the push runs only past the null return
Pushed(trackers, template, id, x, y, count) ==
    IF template = << >> THEN trackers
    ELSE Append(trackers, NewTracker(id, template, x, y, count))

\* addTemplate once the template is extracted (rx, ry: the rounded click)
AddExtracted(x, y, rx, ry, template) ==
    /\ frameCache' = prepareFrameOptimizations(imageData, frameCache, frameCount)
    /\ trackedTemplates' = Pushed(trackedTemplates, template, nextId, rx, ry, frameCount)
    /\ nextId' = IdAfter(nextId, template)
    /\ issued' = IF template = << >> THEN issued
                 ELSE Append(issued, [id |-> nextId, frame |-> imageData])
    /\ anchor' = IF template = << >> THEN anchor ELSE Append(anchor, imageData)
    /\ last' = [NoOp EXCEPT !.op = "create", !.frame = imageData, !.x = x, !.y = y,
                            !.ret = IF template = << >> THEN 0 ELSE nextId,
                            !.cacheBefore = frameCache,
                            !.converted = Converts(imageData, frameCache, frameCount)]
    /\ UNCHANGED << frameCount, currentFrameData >>

\* addTemplate(x, y, frameCapture), called by PointProcessor.addAnchorPoint
addTemplate(x, y) ==
    AddExtracted(x, y, MathRound(x), MathRound(y),
                 addTemplateTemplate(MathRound(x), MathRound(y)))

\* "const batchSize = 4"
batchSize == 4

\* the end of the batch that starts at batchStart (indices count from 0)
batchEnd(batchStart, length) == Min(batchStart + batchSize, length)

\* a batch start that steps over the target after each batch
NextBatchStartSkips(batchStart) == batchStart + batchSize + 1

\* the start of the batch after the one at batchStart
NextBatchStart(batchStart) == batchStart + batchSize

\* an inner loop body for trackers that share one velocity object: the update
\* of one tracker writes the velocity every tracker reads
VisitedSharedVelocity(st, i, step, luma) ==
    [ list |-> [k \in 1..Len(st.list) |->
                  IF k = i + 1 THEN step.tracker
                  ELSE [st.list[k] EXCEPT !.velocity = step.tracker.velocity]],
      visits |-> Append(st.visits, [was |-> st.list[i + 1], match |-> step.match,
                                    now |-> step.tracker, luma |-> luma]) ]

\* the luma buffer the searches of an update read: the cache's when it passes
\* the test of findBestTemplateMatchOptimized, none (the searches take the
\* pixel path) when it does not
SearchedLuma(cache, count) ==
    IF cache.frameId = count /\ cache.grayscale # NoFrame THEN cache.grayscale ELSE NoFrame

\* the body of the inner loop once updateSingleTracker has run on trackers[i]:
\* the tracker object is changed in place; visits records the call and the luma
\* buffer its searches read
Visited(st, i, step, luma) ==
    [ list |-> [st.list EXCEPT ![i + 1] = step.tracker],
      visits |-> Append(st.visits, [was |-> st.list[i + 1], match |-> step.match,
                                    now |-> step.tracker, luma |-> luma]) ]

\* "for (let i = batchStart; i < batchEnd; i++)" from i on
RECURSIVE InnerLoop(_, _, _, _, _, _)
InnerLoop(cache, count, frameData, st, i, end) ==
    IF i >= end \/ i >= Len(st.list) THEN st
    ELSE InnerLoop(cache, count, frameData,
                   Visited(st, i,
                           updateSingleTracker(cache, count, frameData, st.list[i + 1]),
                           SearchedLuma(cache, count)),
                   i + 1, end)

\* "for (let batchStart = 0; batchStart < length; batchStart += batchSize)"
\* from batchStart on
RECURSIVE BatchLoop(_, _, _, _, _)
BatchLoop(cache, count, frameData, st, batchStart) ==
    IF batchStart >= Len(st.list) THEN st
    ELSE BatchLoop(cache, count, frameData,
                   InnerLoop(cache, count, frameData, st, batchStart,
                             batchEnd(batchStart, Len(st.list))),
                   NextBatchStart(batchStart))

\* the batch loop of updateTracking: the list it leaves and the calls it made
BatchSteps(cache, count, frameData) ==
    BatchLoop(cache, count, frameData, [list |-> trackedTemplates, visits |-> << >>], 0)

\* an updateTracking that draws an id from the counter
EndUpdateCounting(frameData, count, cache, st) ==
    /\ frameCount' = count
    /\ currentFrameData' = frameData
    /\ frameCache' = cache
    /\ trackedTemplates' = Compact(st.list)
    /\ anchor' = [id \in 1..Len(anchor) |->
                    IF \E i \in 1..Len(st.visits) :
                          st.visits[i].was.id = id /\ Accepts(st.visits[i].match)
                    THEN frameData ELSE anchor[id]]
    /\ last' = [NoOp EXCEPT
                  !.op = "update", !.frame = frameData,
                  !.results = [i \in 1..Len(st.visits) |->
                                 [id |-> st.visits[i].was.id,
                                  match |-> st.visits[i].match,
                                  was |-> st.visits[i].was,
                                  now |-> st.visits[i].now,
                                  luma |-> st.visits[i].luma,
                                  anchor |-> anchor[st.visits[i].was.id]]],
                  !.removed = {st.list[i].id : i \in {j \in 1..Len(st.list) :
                                                          ~st.list[j].isActive}},
                  !.cacheBefore = frameCache,
                  !.converted = Converts(frameData, frameCache, count)]
    /\ nextId' = nextId + 1
    /\ UNCHANGED issued

\* updateTracking from the batch loop's outcome on
EndUpdate(frameData, count, cache, st) ==
    /\ frameCount' = count
    /\ currentFrameData' = frameData
    /\ frameCache' = cache
    /\ trackedTemplates' = Compact(st.list)
    /\ anchor' = [id \in 1..Len(anchor) |->
                    IF \E i \in 1..Len(st.visits) :
                          st.visits[i].was.id = id /\ Accepts(st.visits[i].match)
                    THEN frameData ELSE anchor[id]]
    /\ last' = [NoOp EXCEPT
                  !.op = "update", !.frame = frameData,
                  !.results = [i \in 1..Len(st.visits) |->
                                 [id |-> st.visits[i].was.id,
                                  match |-> st.visits[i].match,
                                  was |-> st.visits[i].was,
                                  now |-> st.visits[i].now,
                                  luma |-> st.visits[i].luma,
                                  anchor |-> anchor[st.visits[i].was.id]]],
                  !.removed = {st.list[i].id : i \in {j \in 1..Len(st.list) :
                                                          ~st.list[j].isActive}},
                  !.cacheBefore = frameCache,
                  !.converted = Converts(frameData, frameCache, count)]
    /\ UNCHANGED << nextId, issued >>

\* the frame counter and the cache set at the start of updateTracking
StartUpdate(frameData, count, cache) ==
    EndUpdate(frameData, count, cache, BatchSteps(cache, count, frameData))

\* updateTracking(frameData)
updateTracking(frameData) ==
    StartUpdate(frameData, frameCount + 1,
                prepareFrameOptimizations(frameData, frameCache, frameCount + 1))

\* HoraceApp.frameLoop with the point processor enabled: capture a frame, then
\* PointProcessor(ctx, frameData) = updateTracking, draw
FrameLoop ==
    \E f \in SceneFrames :
       /\ imageData' = f
       /\ updateTracking(f)
       /\ UNCHANGED scene

\* HoraceApp.handleCanvasClick -> PointProcessor.addAnchorPoint -> addTemplate
CanvasClick ==
    /\ nextId <= SceneTargets
    /\ frameCount <= MaxClickFrame \/ trackedTemplates = << >>
    /\ \E c \in SceneClicks : addTemplate(c[1], c[2])
    /\ UNCHANGED << imageData, scene >>

\* HoraceApp.clearAllData: calls processor.clear() of each processor that has
\* one; PointProcessor defines addAnchorPoint only, so the tracker is not touched
ClearAllData ==
    /\ last.op # "clear"
    /\ last' = [NoOp EXCEPT !.op = "clear"]
    /\ UNCHANGED << trackedTemplates, nextId, frameCount, frameCache, currentFrameData,
                    imageData, scene, issued, anchor >>

Next == FrameLoop \/ CanvasClick \/ ClearAllData

Spec == Init /\ [][Next]_vars

\* the same program in front of a wide scene or a single feature
SpecWide == InitWide /\ [][Next]_vars

(***************************************************************************)
(* The correlation as a function of its inputs: a template and an image    *)
(* patch of templateSizeSq defined samples are drawn, then scored.  The    *)
(* inputs and the score are held in last; the tracker stays as constructed.*)
(***************************************************************************)
NccShapes == {"flat", "columns", "rows", "checker", "corner", "mixed"}

\* sample k (from 0) of a pattern of that shape over the levels lo and hi
ShapeLevel(shape, lo, hi, k) ==
    CASE shape = "flat" -> lo
      [] shape = "columns" -> IF Footprint[k].dx % 2 = 0 THEN lo ELSE hi
      [] shape = "rows" -> IF Footprint[k].dy % 2 = 0 THEN lo ELSE hi
      [] shape = "checker" -> IF (Footprint[k].dx + Footprint[k].dy) % 2 = 0 THEN lo ELSE hi
      [] shape = "corner" -> IF k = 0 THEN hi ELSE lo
      [] shape = "mixed" -> (lo + k * (hi + 1)) % (MaxNccLevel + 1)

\* the templates scored: Uint8 samples, whole grey levels
NccTemplates ==
    { [k \in 1..templateSizeSq |-> ShapeLevel(shape, lo, hi, k - 1)] :
        shape \in NccShapes, lo \in 0..MaxNccLevel, hi \in 0..MaxNccLevel }

\* the image patches scored: Float32 luma samples, whole or fractional
NccPatches ==
    { [k \in 1..templateSizeSq |->
         ShapeLevel(shape, lo, hi, k - 1) * LumaQ + frac * (k % 2)] :
        shape \in NccShapes, lo \in 0..MaxNccLevel, hi \in 0..MaxNccLevel,
        frac \in {0, LumaQ \div 3} }

\* the image side of the single-pass sums for the samples img
PatchSums(img) ==
    [ img |-> img,
      defined |-> TRUE,
      imageSum |-> SumTo(img, templateSizeSq),
      imageSqSum |-> SumTo([k \in 1..templateSizeSq |-> img[k] * img[k]], templateSizeSq) ]

NccInit ==
    /\ trackedTemplates = << >>
    /\ nextId = 1
    /\ frameCount = 0
    /\ frameCache = [width |-> 0, height |-> 0, grayscale |-> NoFrame, frameId |-> -1]
    /\ currentFrameData = NoFrame
    /\ imageData = NoFrame
    /\ scene = "still"
    /\ issued = << >>
    /\ anchor = << >>
    /\ \E t \in NccTemplates, img \in NccPatches :
          last = [op |-> "ncc-input", template |-> t, img |-> img, ret |-> 0]

\* fastTemplateMatch / normalizedCorrelation from the sums on
NccApply ==
    /\ last.op = "ncc-input"
    /\ last' = [last EXCEPT !.op = "ncc",
                            !.ret = PatchScore(TemplateSums(last.template),
                                               PatchSums(last.img))]
    /\ UNCHANGED << trackedTemplates, nextId, frameCount, frameCache, currentFrameData,
                    imageData, scene, issued, anchor >>

NccNext == NccApply

SpecNcc == NccInit /\ [][NccNext]_vars

(***************************************************************************)
(* The scratch-object pools (objectPool, getPooledObject,                  *)
(* returnPooledObject) as updateSingleTracker uses them.  Objects are      *)
(* numbered in the order they are allocated.  A pool state holds the three *)
(* pools (the top of a pool is its last element), the number of the next   *)
(* object `{}` would allocate, the local variables of one                  *)
(* updateSingleTracker call that hold pooled objects, and a history:       *)
(* misuse (an object was read or written while it was in a pool) and       *)
(* aliased (a search centre was handed out that is the prevPos object).    *)
(* What the searches find and whether the match is accepted are inputs.    *)
(***************************************************************************)
PoolNames == {"positions", "matches", "vectors"}

NoObject == 0 - 1       \* a local variable holding no object (undefined or null)

\* the locals of updateSingleTracker before its first statement
NoLocals(ps) ==
    [ps EXCEPT !.prevPos = NoObject, !.predictedPos = NoObject, !.currentPos = NoObject,
               !.match = NoObject, !.newVelocity = NoObject]

\* the pools after the constructor
EmptyPools ==
    [ positions |-> << >>, matches |-> << >>, vectors |-> << >>, fresh |-> 1,
      prevPos |-> NoObject, predictedPos |-> NoObject, currentPos |-> NoObject,
      match |-> NoObject, newVelocity |-> NoObject,
      misuse |-> FALSE, aliased |-> FALSE ]

\* whether object obj is in one of the pools
Pooled(ps, obj) ==
    \E type \in PoolNames : \E k \in 1..Len(ps[type]) : ps[type][k] = obj

\* "local = this.getPooledObject(type)": pool.pop(), or a new object
getPooledObject(ps, type, local) ==
    IF Len(ps[type]) > 0
    THEN [ps EXCEPT ![local] = ps[type][Len(ps[type])],
                    ![type] = SubSeq(@, 1, Len(@) - 1)]
    ELSE [ps EXCEPT ![local] = ps.fresh, !.fresh = @ + 1]

\* "this.returnPooledObject(type, local)": pushed unless the pool holds 50 objects
returnPooledObject(ps, type, local) ==
    IF Len(ps[type]) < poolLimit THEN [ps EXCEPT ![type] = Append(@, ps[local])] ELSE ps

\* a read or a write of a field of the object in local
Touched(ps, local) == [ps EXCEPT !.misuse = @ \/ Pooled(ps, ps[local])]

\* the object in local is handed out as a search centre while prevPos is held
Handed(ps, local) == [ps EXCEPT !.aliased = @ \/ ps[local] = ps.prevPos]

\* "match = this.findBestTemplateMatchOptimized(tracker, centre)": the centre is
\* read; a search that finds a candidate takes its result object from the pool
\* (line 414), one that finds none returns null
Searched(ps, centre, found) ==
    IF found
    THEN Touched(getPooledObject(Touched(ps, centre), "matches", "match"), "match")
    ELSE [Touched(ps, centre) EXCEPT !.match = NoObject]

\* lines 325-336: prevPos and predictedPos are taken and written, the first search runs
FirstSearchPooling(ps, firstFound) ==
    Searched(Handed(Touched(getPooledObject(
                                Touched(getPooledObject(NoLocals(ps), "positions", "prevPos"),
                                        "prevPos"),
                                "positions", "predictedPos"),
                            "predictedPos"),
                    "predictedPos"),
             "predictedPos", firstFound)

\* a retry that goes on using predictedPos after returning it
RetryPoolingStale(ps, retryFound) ==
    Searched(Touched(returnPooledObject(ps, "positions", "predictedPos"), "predictedPos"),
             "predictedPos", retryFound)

\* lines 343-351: predictedPos is returned, currentPos taken and written, the retry
\* runs and currentPos is returned
RetryPooling(ps, retryFound) ==
    returnPooledObject(
        Searched(Handed(Touched(getPooledObject(
                                    returnPooledObject(ps, "positions", "predictedPos"),
                                    "positions", "currentPos"),
                                "currentPos"),
                        "currentPos"),
                 "currentPos", retryFound),
        "positions", "currentPos")

\* line 357: without a retry predictedPos is returned
NoRetryPooling(ps) == returnPooledObject(ps, "positions", "predictedPos")

\* updateTrackerWithMatchOptimized: match and prevPos are read, newVelocity is
\* taken, written, read and returned (lines 602-615)
AcceptPooling(ps) ==
    returnPooledObject(
        Touched(getPooledObject(Touched(Touched(ps, "match"), "prevPos"),
                                "vectors", "newVelocity"),
                "newVelocity"),
        "vectors", "newVelocity")

\* updateTrackerLostOptimized: prevPos is read (lines 687-688)
LostPooling(ps) == Touched(ps, "prevPos")

\* lines 366-367: prevPos is returned, and the match if there is one
LeavePooling(ps) ==
    IF ps.match # NoObject
    THEN returnPooledObject(returnPooledObject(ps, "positions", "prevPos"),
                            "matches", "match")
    ELSE returnPooledObject(ps, "positions", "prevPos")

\* lines 360-364: the branch taken on the final match
SettledPooling(ps, accepted) ==
    LeavePooling(IF accepted THEN AcceptPooling(ps) ELSE LostPooling(ps))

\* the pools after one updateSingleTracker call
PooledUpdate(ps, firstFound, retry, retryFound, accepted) ==
    SettledPooling(IF retry THEN RetryPooling(FirstSearchPooling(ps, firstFound), retryFound)
                   ELSE NoRetryPooling(FirstSearchPooling(ps, firstFound)),
                   accepted)

PoolInit ==
    /\ trackedTemplates = << >>
    /\ nextId = 1
    /\ frameCount = 0
    /\ frameCache = [width |-> 0, height |-> 0, grayscale |-> NoFrame, frameId |-> -1]
    /\ currentFrameData = NoFrame
    /\ imageData = NoFrame
    /\ scene = "still"
    /\ issued = << >>
    /\ anchor = << >>
    /\ last = [op |-> "pool-init", pools |-> EmptyPools, firstFound |-> FALSE,
               retry |-> FALSE, retryFound |-> FALSE, accepted |-> FALSE]

\* one updateSingleTracker call: the first search finds a candidate or none, of a
\* confidence below 0.2 (weak) or not, the target has fewer than 5 lost frames or
\* not, the retry finds a candidate or none, the final match is accepted or not
PoolUpdate ==
    /\ last.pools.fresh <= MaxPoolObjects
    /\ \E firstFound, weak, fewLost, retryFound, strong \in BOOLEAN :
          LET retry == (~firstFound \/ weak) /\ fewLost
              found == IF retry THEN retryFound ELSE firstFound
              accepted == found /\ strong /\ (retry \/ ~weak)
          IN last' = [op |-> "pool", firstFound |-> firstFound, retry |-> retry,
                      retryFound |-> retry /\ retryFound, accepted |-> accepted,
                      pools |-> PooledUpdate(last.pools, firstFound, retry, retryFound,
                                             accepted)]
    /\ UNCHANGED << trackedTemplates, nextId, frameCount, frameCache, currentFrameData,
                    imageData, scene, issued, anchor >>

PoolNext == PoolUpdate

SpecPool == PoolInit /\ [][PoolNext]_vars

(***************************************************************************)
(* The application shell: class HoraceApp (start, stop, frameLoop,         *)
(* processFrame, updateFps, the processor toggles), class Camera and the   *)
(* PointProcessor entry point.  The state of the shell is kept in last;    *)
(* the camera's readyState, the outcome of getUserMedia, the outcome of    *)
(* getImageData and the outcome of each processor are inputs.              *)
(***************************************************************************)
\* HoraceApp.initializeProcessors: the order of this.processors
ProcessorNames == << "motion", "point", "region" >>

\* what a call of the PointProcessor function does: updateTracking (the pass
\* over the trackers, then the removal loop), then draw; a throw ends it there
PointProcessor(outcome) ==
    CASE outcome = "update-throws" -> << >>
      [] outcome = "compaction-throws" -> << "update" >>
      [] outcome = "draw-throws" -> << "update", "compaction" >>
      [] OTHER -> << "update", "compaction", "render" >>

PointOutcomes == {"returns", "update-throws", "compaction-throws", "draw-throws"}

ProcessorOutcomes ==
    [motion : {"returns", "throws"}, point : PointOutcomes, region : {"returns", "throws"}]

\* the state of a HoraceApp after its constructor, in front of index.html
\* (startBtn enabled, stopBtn disabled, only the point toggle checked)
NoApp ==
    [op |-> "app-init", isRunning |-> FALSE, camera |-> "null", frameCapture |-> FALSE,
     startBtnDisabled |-> FALSE, stopBtnDisabled |-> TRUE, awaiting |-> FALSE,
     pending |-> 0, processorStates |-> [motion |-> FALSE, point |-> TRUE, region |-> FALSE],
     loaded |-> [motion |-> TRUE, point |-> TRUE, region |-> TRUE],
     fpsFrameCount |-> 0, starts |-> 0, frames |-> 0,
     entered |-> FALSE, frameData |-> FALSE, ran |-> << >>, threw |-> {},
     pointSteps |-> << >>, rescheduled |-> FALSE]

\* processFrame without its try/catch: the first throw leaves the loop
RECURSIVE processFrameUncaught(_, _, _)
processFrameUncaught(app, outcome, i) ==
    IF i > Len(ProcessorNames) THEN app
    ELSE LET name == ProcessorNames[i]
             isEnabled == app.processorStates[name]
         IN IF isEnabled /\ app.loaded[name]
            THEN LET called == [app EXCEPT !.ran = Append(@, name),
                                           !.pointSteps = IF name = "point"
                                                          THEN PointProcessor(outcome[name])
                                                          ELSE @]
                 IN IF outcome[name] = "returns"
                    THEN processFrameUncaught(called, outcome, i + 1)
                    ELSE [called EXCEPT !.threw = @ \cup {name}]
            ELSE processFrameUncaught(app, outcome, i + 1)

\* HoraceApp.processFrame: each enabled processor that exists is called inside
\* its own try/catch, in the order of this.processors
RECURSIVE processFrame(_, _, _)
processFrame(app, outcome, i) ==
    IF i > Len(ProcessorNames) THEN app
    ELSE LET name == ProcessorNames[i]
             isEnabled == app.processorStates[name]
         IN IF isEnabled /\ app.loaded[name]
            THEN LET called == [app EXCEPT !.ran = Append(@, name),
                                           !.pointSteps = IF name = "point"
                                                          THEN PointProcessor(outcome[name])
                                                          ELSE @]
                 IN IF outcome[name] = "returns"
                    THEN processFrame(called, outcome, i + 1)
                    ELSE processFrame([called EXCEPT !.threw = @ \cup {name}], outcome, i + 1)
            ELSE processFrame(app, outcome, i + 1)

\* HoraceApp.updateFps: the counter restarts when a second has passed
updateFps(app, secondPassed) ==
    [app EXCEPT !.fpsFrameCount = IF secondPassed THEN 0 ELSE @ + 1]

\* Camera.isReady
isReady(app, readyState4) == app.camera = "initialized" /\ readyState4

\* HoraceApp.frameLoop: one call, from start() or from an animation frame callback
frameLoop(app, readyState4, captured, outcome, secondPassed) ==
    LET fresh == [app EXCEPT !.entered = FALSE, !.frameData = FALSE, !.ran = << >>,
                             !.threw = {}, !.pointSteps = << >>, !.rescheduled = FALSE]
    IN IF ~app.isRunning \/ app.camera = "null" \/ ~isReady(app, readyState4)
       THEN fresh
       ELSE LET processed == IF captured
                             THEN processFrame([fresh EXCEPT !.frameData = TRUE], outcome, 1)
                             ELSE fresh
            IN [updateFps(processed, secondPassed) EXCEPT
                    !.entered = TRUE, !.rescheduled = TRUE, !.pending = @ + 1,
                    !.frames = @ + 1]

AppInit ==
    /\ trackedTemplates = << >>
    /\ nextId = 1
    /\ frameCount = 0
    /\ frameCache = [width |-> 0, height |-> 0, grayscale |-> NoFrame, frameId |-> -1]
    /\ currentFrameData = NoFrame
    /\ imageData = NoFrame
    /\ scene = "still"
    /\ issued = << >>
    /\ anchor = << >>
    /\ \E motionLoaded \in BOOLEAN : last = [NoApp EXCEPT !.loaded.motion = motionLoaded]

AppUnchanged ==
    UNCHANGED << trackedTemplates, nextId, frameCount, frameCache, currentFrameData,
                 imageData, scene, issued, anchor >>

\* a click on startBtn: start() up to its await of camera.initialize
StartClicked ==
    /\ ~last.startBtnDisabled
    /\ last.starts < MaxStarts
    /\ last' = [last EXCEPT !.op = "start", !.startBtnDisabled = TRUE,
                            !.camera = "created", !.awaiting = TRUE, !.starts = @ + 1]
    /\ AppUnchanged

\* loadedmetadata: Camera.initialize resolves and start() runs to its end,
\* calling frameLoop()
StartResumed ==
    /\ last.awaiting
    /\ \E readyState4, captured, secondPassed \in BOOLEAN : \E outcome \in ProcessorOutcomes :
          last' = [frameLoop([last EXCEPT !.awaiting = FALSE, !.camera = "initialized",
                                          !.frameCapture = TRUE,
                                          !.startBtnDisabled = TRUE,
                                          !.stopBtnDisabled = FALSE,
                                          !.isRunning = TRUE],
                             readyState4, captured, outcome, secondPassed)
                   EXCEPT !.op = "started"]
    /\ AppUnchanged

\* getUserMedia rejects or the video reports an error: the catch block of start()
StartFailed ==
    /\ last.awaiting
    /\ last' = [last EXCEPT !.op = "start-failed", !.awaiting = FALSE,
                            !.startBtnDisabled = FALSE]
    /\ AppUnchanged

\* a click on stopBtn: stop()
StopClicked ==
    /\ ~last.stopBtnDisabled
    /\ last' = [last EXCEPT !.op = "stop", !.isRunning = FALSE, !.camera = "null",
                            !.frameCapture = FALSE, !.startBtnDisabled = FALSE,
                            !.stopBtnDisabled = TRUE]
    /\ AppUnchanged

\* the browser runs one callback registered by requestAnimationFrame
AnimationFrame ==
    /\ last.pending >= 1
    /\ last.frames < MaxAppFrames
    /\ \E readyState4, captured, secondPassed \in BOOLEAN : \E outcome \in ProcessorOutcomes :
          last' = [frameLoop([last EXCEPT !.pending = @ - 1],
                             readyState4, captured, outcome, secondPassed)
                   EXCEPT !.op = "frame"]
    /\ AppUnchanged

\* a change event of one of the three toggles
ProcessorToggled ==
    /\ \E name \in {"motion", "point", "region"} :
          last' = [last EXCEPT !.op = "toggle", !.processorStates[name] = ~@]
    /\ AppUnchanged

AppNext ==
    StartClicked \/ StartResumed \/ StartFailed \/ StopClicked \/ AnimationFrame
        \/ ProcessorToggled

SpecApp == AppInit /\ [][AppNext]_vars

(***************************************************************************)
(* Properties.  createTarget is addTemplate, update is updateTracking,     *)
(* estimatedPosition is actualPos, displayPosition is currentPos.          *)
(***************************************************************************)
Ids(trackers) == {trackers[i].id : i \in 1..Len(trackers)}

\* whether a result of the last update is an accepted match (score above 0.2)
Accepted(r) == r.match.has /\ r.match.confidence > Q \div 5

\* the frame target id was created on
CreatedOn(id) == (CHOOSE k \in 1..Len(issued) : issued[k].id = id)

\* C1: every successful createTarget returns an id greater than every id
\* returned before, no two targets in the list share an id, and every id in
\* the list is one that was returned (so an id freed by eviction, being smaller
\* than the ids returned after it, is never handed out again)
C1_IdsUniqueIncreasing ==
    /\ \A i, j \in 1..Len(issued) : i < j => issued[i].id < issued[j].id
    /\ \A i, j \in 1..Len(trackedTemplates) :
          i # j => trackedTemplates[i].id # trackedTemplates[j].id
    /\ Ids(trackedTemplates) \subseteq {issued[k].id : k \in 1..Len(issued)}
    /\ (last.op = "create" /\ last.ret # 0) => last.ret = issued[Len(issued)].id

\* a target was evicted and a later createTarget returned a new id
C1_CreatedAfterEviction ==
    /\ last.op = "create" /\ last.ret = 2
    /\ Ids(trackedTemplates) = {2}
    /\ Len(issued) = 2

\* C2: after every update every target in the list is active with
\* lostFrames <= 30, and a target whose 31st consecutive unmatched update has
\* just run is not in the list
C2_EvictedWithinFrame ==
    /\ \A i \in 1..Len(trackedTemplates) :
          trackedTemplates[i].isActive /\ trackedTemplates[i].lostFrames <= 30
    /\ last.op = "update" =>
          \A i \in 1..Len(last.results) :
             (last.results[i].was.lostFrames = 30 /\ ~Accepted(last.results[i]))
                => last.results[i].id \notin Ids(trackedTemplates)

\* an update has just been the 31st consecutive unmatched one of a target
C2_ThirtyFirstMiss ==
    /\ last.op = "update"
    /\ \E i \in 1..Len(last.results) :
          /\ last.results[i].was.lostFrames = 30
          /\ ~Accepted(last.results[i])
          /\ last.results[i].id \in last.removed

\* C3: every target's confidence lies in [0.1, 1.0]; an accept sets it to
\* min(1.0, 0.95 * confidence + 0.05 * matchConfidence), a reject to
\* max(0.1, confidence - 0.02)
C3_ConfidenceRange ==
    /\ \A i \in 1..Len(trackedTemplates) :
          Q \div 10 <= trackedTemplates[i].confidence /\ trackedTemplates[i].confidence <= Q
    /\ last.op = "update" =>
          \A i \in 1..Len(last.results) :
             LET r == last.results[i]
             IN /\ Q \div 10 <= r.now.confidence /\ r.now.confidence <= Q
                /\ r.now.confidence =
                      IF Accepted(r)
                      THEN Min(Q, RoundDiv(95 * r.was.confidence + 5 * r.match.confidence, 100))
                      ELSE Max(Q \div 10, r.was.confidence - Q \div 50)

\* a target that was accepted after its creation has come down to the floor 0.1
C3_AtFloorAfterAccept ==
    \E i \in 1..Len(trackedTemplates) :
       /\ trackedTemplates[i].confidence = Q \div 10
       /\ Len(trackedTemplates[i].trail) > 1

\* C4: createTarget fails exactly when there is no pixel data or the footprint
\* centred at (round(x), round(y)) is not fully inside the frame; on success
\* the target sits at (round(x), round(y)), neither clamped nor moved
C4_CreateFailsIffOutside ==
    last.op = "create" =>
       LET rx == MathRound(last.x)
           ry == MathRound(last.y)
       IN /\ (last.ret = 0) <=>
                \/ last.frame = NoFrame
                \/ rx - halfSize * Q < 0
                \/ rx + halfSize * Q >= Frames[last.frame].width * Q
                \/ ry - halfSize * Q < 0
                \/ ry + halfSize * Q >= Frames[last.frame].height * Q
          /\ last.ret # 0 =>
                /\ trackedTemplates # << >>
                /\ trackedTemplates[Len(trackedTemplates)].actualPos = [x |-> rx, y |-> ry]

\* a createTarget on a frame with pixel data failed with the footprint's last
\* column exactly one past the frame's last column
C4_FailedOnTheEdge ==
    /\ last.op = "create" /\ last.ret = 0 /\ last.frame # NoFrame
    /\ MathRound(last.x) + halfSize * Q = Frames[last.frame].width * Q
    /\ MathRound(last.y) - halfSize * Q >= 0
    /\ MathRound(last.y) + halfSize * Q < Frames[last.frame].height * Q

\* C5: a failed createTarget leaves the target list and the id counter as they were
C5_FailedCreateNoEffect ==
    [][ (last'.op = "create" /\ last'.ret = 0)
           => (trackedTemplates' = trackedTemplates /\ nextId' = nextId) ]_vars

\* a createTarget has just failed on an engine that holds a target
C5_FailedWithTargets ==
    /\ last.op = "create" /\ last.ret = 0
    /\ trackedTemplates # << >>
    /\ nextId = 2

\* C6: a successful createTarget appends exactly one target to the end of the
\* list, with velocity (0,0), confidence 1.0, lostFrames 0, a trail of the one
\* point (round(x), round(y)), both positions at that point, and returns its
\* id; the first success on a fresh engine returns 1
C6_CreateAppends ==
    [][ (last'.op = "create" /\ last'.ret # 0) =>
           LET p == [x |-> MathRound(last'.x), y |-> MathRound(last'.y)]
               n == Len(trackedTemplates')
           IN /\ n = Len(trackedTemplates) + 1
              /\ SubSeq(trackedTemplates', 1, n - 1) = trackedTemplates
              /\ trackedTemplates'[n].velocity = [x |-> 0, y |-> 0]
              /\ trackedTemplates'[n].confidence = Q
              /\ trackedTemplates'[n].lostFrames = 0
              /\ trackedTemplates'[n].trail = << p >>
              /\ trackedTemplates'[n].actualPos = p
              /\ trackedTemplates'[n].currentPos = p
              /\ trackedTemplates'[n].id = last'.ret
              /\ (issued = << >> => last'.ret = 1) ]_vars

\* a second target has just been created behind a first one that has moved on
C6_SecondAppended ==
    /\ last.op = "create" /\ last.ret = 2
    /\ Len(trackedTemplates) = 2
    /\ trackedTemplates[1].id = 1 /\ Len(trackedTemplates[1].trail) > 1
    /\ trackedTemplates[2].id = 2

\* C7: every target's trail holds between 1 and T = 10 points
C7_TrailBounded ==
    \A i \in 1..Len(trackedTemplates) :
       /\ 1 <= Len(trackedTemplates[i].trail)
       /\ Len(trackedTemplates[i].trail) <= 10

\* a target with a full trail has just been accepted once more
C7_FullTrailAccepted ==
    /\ last.op = "update"
    /\ \E i \in 1..Len(last.results) :
          /\ Len(last.results[i].was.trail) = 10
          /\ Accepted(last.results[i])
          /\ last.results[i].id \in Ids(trackedTemplates)

Fresh(t) == Len(t.trail) = 1 /\ t.lostFrames = 0 /\ t.velocity = [x |-> 0, y |-> 0]

\* the whole-pixel centres of frame f at which a footprint fits
Centres(f) ==
    {[x |-> x * Q, y |-> y * Q] :
        x \in halfSize..(Frames[f].width - halfSize - 1),
        y \in halfSize..(Frames[f].height - halfSize - 1)}

\* whether in frame f some centre other than t's own scores above 0.2 and
\* either at least as high as t's own position or above 0.9
Rival(t, f) ==
    \E p \in Centres(f) \ {t.actualPos} :
       LET s == normalizedCorrelation(t.template, p.x, p.y, f, Frames[f].width)
           own == normalizedCorrelation(t.template, t.actualPos.x, t.actualPos.y,
                                        f, Frames[f].width)
       IN s > Q \div 5 /\ (s >= own \/ s > (9 * Q) \div 10)

\* C9 as stated: an update with the frame a target was created on leaves
\* estimatedPosition and displayPosition as they were
C9_StaticKeepsPosition ==
    last.op = "update" =>
       \A i \in 1..Len(last.results) :
          LET r == last.results[i]
          IN issued[CreatedOn(r.id)].frame = last.frame =>
                r.now.actualPos = r.was.actualPos /\ r.now.currentPos = r.was.currentPos

\* C9: the first update of a target, with the frame it was created on, leaves
\* both positions as they were unless another centre of the search window
\* scores above 0.2 and at least as high as the target's own centre or above 0.9
C9_StaticKeepsPositionWithoutRival ==
    last.op = "update" =>
       \A i \in 1..Len(last.results) :
          LET r == last.results[i]
          IN (issued[CreatedOn(r.id)].frame = last.frame /\ Fresh(r.was)
                /\ ~Rival(r.was, last.frame)) =>
                r.now.actualPos = r.was.actualPos /\ r.now.currentPos = r.was.currentPos

\* a new target has just been matched at its own position on the frame it was
\* created on
C9_MatchedInPlace ==
    /\ last.op = "update"
    /\ \E i \in 1..Len(last.results) :
          /\ issued[CreatedOn(last.results[i].id)].frame = last.frame
          /\ Fresh(last.results[i].was)
          /\ ~Rival(last.results[i].was, last.frame)
          /\ Accepted(last.results[i])
          /\ last.results[i].now.actualPos = last.results[i].was.actualPos

\* C10 as stated: after the orchestrator's clear action the tracker holds no targets
C10_ClearEmpties == last.op = "clear" => trackedTemplates = << >>

C12_EachTargetOnceInOrder ==
    [][ frameCount' # frameCount =>
          /\ frameCount' = frameCount + 1
          /\ last'.op = "update"
          /\ Len(last'.results) = Len(trackedTemplates)
          /\ \A i \in 1..Len(trackedTemplates) :
                LET r == last'.results[i]
                IN /\ r.was = trackedTemplates[i]
                   /\ IF Accepted(r)
                      THEN /\ r.now.lostFrames = 0
                           /\ r.now.lastSeen = frameCount'
                           /\ r.now.framesSinceUpdate \in {0, r.was.framesSinceUpdate + 1}
                      ELSE /\ r.now.lostFrames = r.was.lostFrames + 1
                           /\ r.now.lastSeen = r.was.lastSeen
                           /\ r.now.framesSinceUpdate = r.was.framesSinceUpdate ]_vars

\* an update over more targets than one batch holds
C12_MoreThanOneBatch ==
    /\ last.op = "update"
    /\ Len(last.results) > batchSize
    /\ \E i \in 1..Len(last.results) : i > batchSize /\ Accepted(last.results[i])

\* C13: targets are independent: a createTarget leaves every other target as
\* it was and gives the new one an id no other target has, also at a
\* coordinate and frame already used; an update takes each target to the state
\* that updateSingleTracker gives for that target alone on that frame, whatever
\* else is in the list and wherever the target sits in it
C13_TargetsIndependent ==
    [][ /\ (frameCount' # frameCount =>
              trackedTemplates' =
                 Compact([i \in 1..Len(trackedTemplates) |->
                            updateSingleTracker(frameCache', frameCount', imageData',
                                                trackedTemplates[i]).tracker]))
        /\ (nextId' # nextId =>
              /\ Len(trackedTemplates') = Len(trackedTemplates) + 1
              /\ \A i \in 1..Len(trackedTemplates) :
                    /\ trackedTemplates'[i] = trackedTemplates[i]
                    /\ trackedTemplates'[i].id # trackedTemplates'[Len(trackedTemplates')].id) ]_vars

\* two targets created at the same coordinate of the same frame were updated
\* on a frame that moved them: they differ in their ids only, before and after
C13_TwinsMovedAlike ==
    /\ last.op = "update"
    /\ Len(last.results) = 2
    /\ last.results[1].id # last.results[2].id
    /\ last.results[2].was = [last.results[1].was EXCEPT !.id = last.results[2].id]
    /\ last.results[2].now = [last.results[1].now EXCEPT !.id = last.results[2].id]
    /\ last.results[1].now.actualPos # last.results[1].was.actualPos
    /\ last.results[1].now.velocity # last.results[1].was.velocity

\* C14: the compaction of an update removes exactly the targets that the update
\* left inactive and keeps the others in their order, and the list is in
\* strictly ascending id order after every operation
C14_CompactionKeepsOrder ==
    /\ \A i, j \in 1..Len(trackedTemplates) :
          i < j => trackedTemplates[i].id < trackedTemplates[j].id
    /\ last.op = "update" =>
          /\ trackedTemplates =
                SelectSeq([i \in 1..Len(last.results) |-> last.results[i].now],
                          LAMBDA t : t.isActive)
          /\ last.removed = {last.results[i].id : i \in {j \in 1..Len(last.results) :
                                                           ~last.results[j].now.isActive}}

\* an update removed the older of two targets and kept the younger
C14_OlderRemovedYoungerKept ==
    /\ last.op = "update"
    /\ Len(last.results) = 2
    /\ last.removed = {last.results[1].id}
    /\ Ids(trackedTemplates) = {last.results[2].id}

\* whether every sample of a patch or template has the same value (its
\* variance is 0)
Uniform(samples) == \A k \in 1..Len(samples) : samples[k] = samples[1]

\* C15: the NCC score of any template and any image patch of templateSizeSq
\* samples lies in [-1, 1] and is not NaN, and it is exactly 0 whenever the
\* template or the patch has no variance
C15_ScoreInRange ==
    last.op = "ncc" =>
       /\ last.ret # NaN
       /\ -Q <= last.ret /\ last.ret <= Q
       /\ (Uniform(last.template) \/ Uniform(last.img)) => last.ret = 0

\* a textured template was scored against a patch without variance
C15_ScoredUniformPatch ==
    /\ last.op = "ncc"
    /\ ~Uniform(last.template)
    /\ Uniform(last.img)
    /\ last.img[1] > 0
    /\ last.ret = 0

\* C16 as stated: when the frame preprocessor is invoked while the cache already
\* carries the current frame sequence number (createTarget after an update or
\* after another createTarget on the same frame), it does not run the luma
\* conversion again
C16_SecondCallSkipsConversion ==
    (/\ last.op = "create"
     /\ last.cacheBefore.grayscale # NoFrame
     /\ last.cacheBefore.frameId = frameCount
     /\ last.cacheBefore.grayscale = last.frame) => ~last.converted

\* C17: the luma cache is not reused across frames: the cache an update leaves
\* was converted in that call from the frame passed to it and carries the new
\* frame sequence number, and the luma buffer the searches of every target
\* read in that update is that frame's, whatever createTarget calls filled and
\* tagged the cache before
C17_CacheIsThisFrame ==
    last.op = "update" =>
       /\ last.converted
       /\ frameCache = PreparedCache(last.frame, frameCount)
       /\ last.cacheBefore.frameId < frameCount
       /\ \A i \in 1..Len(last.results) : last.results[i].luma = last.frame

\* an update on a frame other than the one a createTarget had just put in the
\* cache, with the new target matched on the new frame
C17_UpdatedAfterCreateOnOtherFrame ==
    /\ last.op = "update"
    /\ last.cacheBefore.grayscale # NoFrame
    /\ last.cacheBefore.grayscale # last.frame
    /\ last.cacheBefore.frameId = frameCount - 1
    /\ \E i \in 1..Len(last.results) :
          /\ Fresh(last.results[i].was)
          /\ last.results[i].was.lastSeen = frameCount - 1
          /\ Accepted(last.results[i])

\* whether the last operation was an update on a frame whose dimensions differ
\* from those of the cache it started with
Resized ==
    /\ last.op = "update"
    /\ last.cacheBefore.grayscale # NoFrame
    /\ \/ last.cacheBefore.width # Frames[last.frame].width
       \/ last.cacheBefore.height # Frames[last.frame].height

\* whether a template footprint centred at pos lies inside frame f
Fits(pos, f) ==
    /\ halfSize * Q <= pos.x /\ pos.x <= (Frames[f].width - halfSize - 1) * Q
    /\ halfSize * Q <= pos.y /\ pos.y <= (Frames[f].height - halfSize - 1) * Q

\* the reject path: lostFrames + 1 and the position advanced by the velocity
DeadReckoned(r) ==
    /\ r.now.lostFrames = r.was.lostFrames + 1
    /\ r.now.actualPos = [x |-> r.was.actualPos.x + r.was.velocity.x,
                          y |-> r.was.actualPos.y + r.was.velocity.y]

\* C18 as stated: after a change of the frame dimensions the cache has the new
\* size and a target whose footprint no longer fits takes the reject path
C18_UnfitTargetRejected ==
    Resized =>
       /\ frameCache.width = Frames[last.frame].width
       /\ frameCache.height = Frames[last.frame].height
       /\ \A i \in 1..Len(last.results) :
             ~Fits(last.results[i].was.actualPos, last.frame) =>
                /\ ~Accepted(last.results[i])
                /\ DeadReckoned(last.results[i])

\* C18 amended: after a change of the frame dimensions the cache has the new
\* size and every score is a number; a target whose footprint no longer fits
\* is searched for like any other, over the centres of its window at which a
\* footprint fits in the new frame: when the best candidate scores above 0.2
\* the target is accepted there, inside the new frame, and otherwise it takes
\* the reject path (lostFrames + 1, dead reckoning) and stays in the list
\* exactly while lostFrames <= maxLostFrames
C18_UnfitTargetSearchedInFrame ==
    Resized =>
       /\ frameCache.width = Frames[last.frame].width
       /\ frameCache.height = Frames[last.frame].height
       /\ \A i \in 1..Len(last.results) :
             LET r == last.results[i]
             IN /\ r.match.has => (-Q <= r.match.confidence /\ r.match.confidence <= Q)
                /\ ~Fits(r.was.actualPos, last.frame) =>
                      IF Accepted(r)
                      THEN /\ r.now.actualPos = [x |-> r.match.x, y |-> r.match.y]
                           /\ Fits(r.now.actualPos, last.frame)
                           /\ r.now.lostFrames = 0
                      ELSE /\ DeadReckoned(r)
                           /\ r.id \in Ids(trackedTemplates)
                                 <=> r.now.lostFrames <= maxLostFrames

\* the frame became narrower and a target whose footprint no longer fitted was
\* accepted at another position, inside the new frame
C18_UnfitTargetAcceptedInside ==
    /\ Resized
    /\ \E i \in 1..Len(last.results) :
          /\ ~Fits(last.results[i].was.actualPos, last.frame)
          /\ Accepted(last.results[i])
          /\ last.results[i].now.actualPos # last.results[i].was.actualPos
          /\ Fits(last.results[i].now.actualPos, last.frame)

\* C19: an update leaves a target's lostFrames at 0 when the frame's match was
\* accepted, however long the target had been coasting, and at exactly its
\* previous value plus 1 when the match was rejected
C19_LostFramesZeroOrNext ==
    last.op = "update" =>
       \A i \in 1..Len(last.results) :
          last.results[i].now.lostFrames =
             IF Accepted(last.results[i]) THEN 0 ELSE last.results[i].was.lostFrames + 1

\* a target that had coasted for maxLostFrames frames was matched again and
\* stayed in the list with lostFrames 0
C19_ReacquiredAfterCoasting ==
    /\ last.op = "update"
    /\ \E i \in 1..Len(last.results) :
          /\ last.results[i].was.lostFrames = maxLostFrames
          /\ Accepted(last.results[i])
          /\ last.results[i].now.lostFrames = 0
          /\ last.results[i].id \in Ids(trackedTemplates)

\* C20: a target leaves the list only in an update whose reject took its
\* lostFrames above maxLostFrames, and a target whose lostFrames after its
\* update is at most maxLostFrames is in the list when the update returns
C20_NoPrematureEviction ==
    [][ /\ \A i \in 1..Len(trackedTemplates) :
              trackedTemplates[i].id \notin Ids(trackedTemplates') =>
                 /\ last'.op = "update"
                 /\ last'.results[i].was = trackedTemplates[i]
                 /\ last'.results[i].now.lostFrames = trackedTemplates[i].lostFrames + 1
                 /\ last'.results[i].now.lostFrames > maxLostFrames
        /\ (frameCount' # frameCount =>
              \A j \in 1..Len(last'.results) :
                 last'.results[j].now.lostFrames <= maxLostFrames =>
                    \E k \in 1..Len(trackedTemplates') :
                       trackedTemplates'[k] = last'.results[j].now) ]_vars

\* a target rejected for the maxLostFrames-th time in a row is still in the list
C20_KeptAtThirtyMisses ==
    /\ last.op = "update"
    /\ \E i \in 1..Len(last.results) :
          /\ ~Accepted(last.results[i])
          /\ last.results[i].now.lostFrames = maxLostFrames
          /\ last.results[i].id \in Ids(trackedTemplates)

\* C21: a frame's match is accepted (lostFrames reset to 0) if and only if a match
\* exists and its confidence strictly exceeds 0.2; a first search whose best scores
\* exactly 0.2 triggers no retry and ends in the reject branch
C21_AcceptedIffAboveThreshold ==
    last.op = "update" =>
        \A i \in 1..Len(last.results) :
            LET r == last.results[i]
            IN /\ (r.now.lostFrames = 0)
                    <=> (r.match.has /\ r.match.confidence > confidenceThreshold)
               /\ (r.match.firstHas /\ r.match.firstConfidence = confidenceThreshold)
                    => /\ ~r.match.retried
                       /\ r.now.lostFrames = r.was.lostFrames + 1
                       /\ r.now.actualPos.x = r.was.actualPos.x + r.was.velocity.x

\* a target whose best match scored exactly 0.2 on a frame
C21_MatchedAtThreshold ==
    /\ last.op = "update"
    /\ \E i \in 1..Len(last.results) :
          /\ last.results[i].match.has
          /\ last.results[i].match.confidence = confidenceThreshold
          /\ ~last.results[i].match.retried
          /\ last.results[i].now.lostFrames = 1

\* C22: the expansion retry runs exactly when the first search found no match or a
\* confidence below 0.2 and the target's lostFrames before the update is below 5; the
\* retry is centred on the target's estimatedPosition (rounded), not on the predicted
\* position, its radius is min(1.5 * searchRadius, 50), and the match the update acts
\* on is the retry's; without a retry it is the first search's, centred on the
\* predicted position with radius min(searchRadius, 50)
C22_RetryWhenWhereAndReplaces ==
    last.op = "update" =>
        \A i \in 1..Len(last.results) :
            LET r == last.results[i]
                m == r.match
            IN /\ m.retried <=> /\ ~m.firstHas \/ m.firstConfidence < confidenceThreshold
                                /\ r.was.lostFrames < 5
               /\ m.retried =>
                    /\ m.centerX = MathRound(r.was.actualPos.x)
                    /\ m.centerY = MathRound(r.was.actualPos.y)
                    /\ m.radius = Min((r.was.searchRadius * 3) \div 2, 50 * Q)
               /\ ~m.retried =>
                    /\ m.centerX = MathRound(r.was.actualPos.x + r.was.velocity.x)
                    /\ m.centerY = MathRound(r.was.actualPos.y + r.was.velocity.y)
                    /\ m.radius = Min(r.was.searchRadius, 50 * Q)
                    /\ m.has = m.firstHas
                    /\ m.confidence = m.firstConfidence

\* a moving target whose retry was centred on a pixel other than the predicted one
\* and found what the first search had not
C22_RetriedBehindPrediction ==
    /\ last.op = "update"
    /\ \E i \in 1..Len(last.results) :
          LET r == last.results[i]
          IN /\ r.match.retried
             /\ MathRound(r.was.actualPos.y + r.was.velocity.y) # MathRound(r.was.actualPos.y)
             /\ r.match.centerX = MathRound(r.was.actualPos.x)
             /\ r.match.centerY = MathRound(r.was.actualPos.y)

\* C23: after every update each surviving target's searchRadius lies in [15, 60]; the
\* radius the accept/reject rule starts from is the one the target had before the
\* update, whether or not the retry ran with its 1.5x radius: max(15, 30 - 10 *
\* confidence) after an accept, min(60, searchRadius + 3) after a reject
C23_RadiusInRangeAndRestored ==
    /\ \A i \in 1..Len(trackedTemplates) :
          /\ trackedTemplates[i].searchRadius >= 15 * Q
          /\ trackedTemplates[i].searchRadius <= 60 * Q
    /\ last.op = "update" =>
          \A i \in 1..Len(last.results) :
             LET r == last.results[i]
             IN r.now.searchRadius =
                   IF r.match.has /\ r.match.confidence > confidenceThreshold
                   THEN Max(15 * Q, 30 * Q - 10 * r.now.confidence)
                   ELSE Min(60 * Q, r.was.searchRadius + 3 * Q)

\* a target rejected after a retry whose radius grew by 3 from its pre-retry value
C23_RejectedAfterRetry ==
    /\ last.op = "update"
    /\ \E i \in 1..Len(last.results) :
          LET r == last.results[i]
          IN /\ r.match.retried
             /\ r.match.radius = (r.was.searchRadius * 3) \div 2
             /\ r.now.lostFrames = r.was.lostFrames + 1
             /\ r.now.isActive
             /\ r.now.searchRadius = r.was.searchRadius + 3 * Q
             /\ r.now.searchRadius < 60 * Q

\* C24: once a coarse candidate scores above 0.9, no further coarse candidate is
\* evaluated, in the same row or in any later row of the search window: the number
\* of coarse candidates evaluated is the number evaluated when the first one
\* scored above 0.9
C24_CoarseStopsAtFirstHit ==
    last.op = "update" =>
        \A i \in 1..Len(last.results) :
            last.results[i].match.hitAt # 0 =>
                last.results[i].match.searchCount = last.results[i].match.hitAt

\* the number of unit-step positions from lo up to hi
UnitSteps(lo, hi) == IF hi < lo THEN 0 ELSE (hi - lo) \div Q + 1

\* the number of candidates of a fine pass around the coarse best of search m on a
\* frame of that size: every unit-step position within max(2, coarse step) of the
\* coarse best, clipped to the search window
FineCandidates(m, width, height) ==
    LET step == Max(Q, (m.radius \div (20 * Q)) * Q)
        reach == Max(2 * Q, step)
        left == Max(halfSize * Q, m.centerX - m.radius)
        right == Min((width - halfSize - 1) * Q, m.centerX + m.radius)
        top == Max(halfSize * Q, m.centerY - m.radius)
        bottom == Min((height - halfSize - 1) * Q, m.centerY + m.radius)
    IN UnitSteps(Max(left, m.coarseX - reach), Min(right, m.coarseX + reach))
         * UnitSteps(Max(top, m.coarseY - reach), Min(bottom, m.coarseY + reach))

\* C25: the fine pass runs exactly when the coarse pass ended with a best score above
\* 0.3; it evaluates every unit-step position within max(2, coarse step) of the coarse
\* best, clipped to the search window; the match returned scores no lower than the
\* coarse best and has the highest score of all positions evaluated in both passes
C25_FinePassRefinesCoarseBest ==
    last.op = "update" =>
        \A i \in 1..Len(last.results) :
            LET r == last.results[i]
                m == r.match
            IN /\ (m.fineCount > 0) <=> (m.coarseScore > (3 * Q) \div 10)
               /\ m.fineCount > 0 =>
                     m.fineCount = FineCandidates(m, Frames[r.luma].width,
                                                  Frames[r.luma].height)
               /\ m.has => /\ m.confidence >= m.coarseScore
                           /\ m.confidence = m.maxSeen
               /\ ~m.has => m.maxSeen = -Q

\* a search with a coarse step of 2 whose fine pass found a better position than
\* the coarse pass
C25_FinePassImproved ==
    /\ last.op = "update"
    /\ \E i \in 1..Len(last.results) :
          LET m == last.results[i].match
          IN /\ m.has
             /\ m.radius >= 40 * Q
             /\ m.fineCount > 1
             /\ m.coarseScore > (3 * Q) \div 10
             /\ m.confidence > m.coarseScore

\* C26: every candidate centre at which a score was computed, in the first search and
\* in the retry, in the coarse and in the fine pass, had its whole footprint inside the
\* frame searched, whatever the radius and wherever the target; a search whose window
\* holds no such centre evaluates nothing and returns no match
C26_EveryCandidateInsideFrame ==
    last.op = "update" =>
        \A i \in 1..Len(last.results) :
            LET r == last.results[i]
                m == r.match
                f == Frames[r.luma]
            IN /\ m.inside
               /\ m.firstInside
               /\ m.has => /\ Px(MathRound(m.x)) \in halfSize..(f.width - halfSize - 1)
                           /\ Px(MathRound(m.y)) \in halfSize..(f.height - halfSize - 1)
               /\ (f.width < templateSize \/ f.height < templateSize
                     \/ m.centerX + m.radius < halfSize * Q
                     \/ m.centerX - m.radius > (f.width - halfSize - 1) * Q
                     \/ m.centerY + m.radius < halfSize * Q
                     \/ m.centerY - m.radius > (f.height - halfSize - 1) * Q)
                    => ~m.has /\ m.searchCount = 0 /\ m.fineCount = 0

\* a search with a fractional radius whose window was clipped on neither side in x:
\* its candidates were fractional, and the best of them was kept
C26_FractionalCandidates ==
    /\ last.op = "update"
    /\ \E i \in 1..Len(last.results) :
          LET m == last.results[i].match
          IN /\ m.has
             /\ m.radius % Q # 0
             /\ m.x % Q # 0
             /\ m.searchCount > 1
             /\ m.fineCount > 1
             /\ m.inside

\* C27: after an accepted match the target's estimatedPosition is the integer pixel
\* centre at which the accepted score was computed (the pixel fastTemplateMatch
\* rounds the candidate to), and that centre's footprint lies inside the frame
C27_AcceptedAtScoredPixel ==
    last.op = "update" =>
        \A i \in 1..Len(last.results) :
            LET r == last.results[i]
            IN (r.match.has /\ r.match.confidence > confidenceThreshold) =>
                  /\ r.now.actualPos.x = MathRound(r.match.x)
                  /\ r.now.actualPos.y = MathRound(r.match.y)
                  /\ CentreInside(r.luma, r.now.actualPos.x, r.now.actualPos.y)

\* the update of result r was a template refresh: the match was accepted, it was at
\* least the fifth accepted match since creation or the last refresh, and it scored
\* above 0.6
Refreshed(r) ==
    /\ r.match.has /\ r.match.confidence > confidenceThreshold
    /\ r.was.framesSinceUpdate + 1 >= 5
    /\ r.match.confidence > (6 * Q) \div 10

\* C28: a target's template is modified only by an update that accepted its match
\* with at least 5 accepted matches counted since creation or the last refresh and a
\* match confidence above 0.6; in every other update the template is unchanged; the
\* counter is reset to 0 exactly by such an update, counts up by one on every other
\* accept and is left alone by a reject
C28_TemplateChangesOnlyOnRefresh ==
    last.op = "update" =>
        \A i \in 1..Len(last.results) :
            LET r == last.results[i]
            IN /\ ~Refreshed(r) => r.now.template = r.was.template
               /\ r.now.framesSinceUpdate =
                     IF Refreshed(r) THEN 0
                     ELSE IF r.match.has /\ r.match.confidence > confidenceThreshold
                          THEN r.was.framesSinceUpdate + 1
                          ELSE r.was.framesSinceUpdate
               /\ Len(r.now.template) = Len(r.was.template)

\* the fifth accepted match refreshed the template, after a reject in between that
\* had left the counter alone
C28_RefreshedOnFifthAccept ==
    /\ last.op = "update"
    /\ \E i \in 1..Len(last.results) :
          LET r == last.results[i]
          IN /\ Refreshed(r)
             /\ r.was.framesSinceUpdate = 4
             /\ r.now.framesSinceUpdate = 0
             /\ r.now.template # r.was.template
             /\ r.was.confidence < Q

\* the luma samples of frame f, as a Uint8Array patch keeps them, over the footprint
\* centred on pixel (px, py)
FramePatch(f, px, py) ==
    [k \in 1..templateSizeSq |->
        ToUint8(GrayOf[f][(py + Footprint[k - 1].dy) * Frames[f].width
                          + px + Footprint[k - 1].dx])]

\* C29: when a template refresh happens, each template sample becomes
\* round(old * (1 - b) + patch * b) with b = 0.15 * matchConfidence, where patch holds
\* the current frame's luma samples over the footprint centred on the target's new
\* estimatedPosition (the pixel it lies in); the template keeps S * S samples
C29_RefreshBlendsFramePatch ==
    last.op = "update" =>
        \A i \in 1..Len(last.results) :
            LET r == last.results[i]
            IN Refreshed(r) =>
                  /\ Len(r.now.template) = templateSizeSq
                  /\ \A k \in 1..templateSizeSq :
                        r.now.template[k] =
                           RoundDiv(r.was.template[k] * (Q - RoundDiv(15 * r.match.confidence, 100))
                                      + FramePatch(r.luma, Px(MathRound(r.now.actualPos.x)),
                                                   Px(MathRound(r.now.actualPos.y)))[k]
                                          * RoundDiv(15 * r.match.confidence, 100),
                                    Q)

\* C30: on a rejected frame the target is dead-reckoned with the velocity it had
\* before the update, estimatedPosition' = estimatedPosition + velocity, and the
\* velocity is decayed afterwards, velocity' = 0.85 * velocity; confidence' =
\* max(0.1, confidence - 0.02) and searchRadius' = min(60, searchRadius + 3)
C30_RejectDeadReckonsThenDecays ==
    last.op = "update" =>
        \A i \in 1..Len(last.results) :
            LET r == last.results[i]
            IN ~(r.match.has /\ r.match.confidence > confidenceThreshold) =>
                  /\ r.now.actualPos.x = r.was.actualPos.x + r.was.velocity.x
                  /\ r.now.actualPos.y = r.was.actualPos.y + r.was.velocity.y
                  /\ r.now.velocity.x = RoundDiv(85 * r.was.velocity.x, 100)
                  /\ r.now.velocity.y = RoundDiv(85 * r.was.velocity.y, 100)
                  /\ r.now.confidence = Max(Q \div 10, r.was.confidence - Q \div 50)
                  /\ r.now.searchRadius = Min(60 * Q, r.was.searchRadius + 3 * Q)

\* a moving target was rejected: it moved on by its old velocity, which then decayed
C30_MovingTargetRejected ==
    /\ last.op = "update"
    /\ \E i \in 1..Len(last.results) :
          LET r == last.results[i]
          IN /\ ~(r.match.has /\ r.match.confidence > confidenceThreshold)
             /\ r.was.velocity.x # 0
             /\ r.now.velocity.x # r.was.velocity.x
             /\ r.now.actualPos.x = r.was.actualPos.x + r.was.velocity.x
             /\ r.now.actualPos.x # r.was.actualPos.x + r.now.velocity.x

\* whether v lies between a and b, ends included
Between(v, a, b) == Min(a, b) <= v /\ v <= Max(a, b)

\* C31: on an accepted frame velocity' = 0.7 * velocity + 0.3 * d, where d is the match
\* position minus the previous estimatedPosition; each component of velocity'
\* therefore lies between the old component and that of d, no further from d than
\* the old one was: under a constant displacement d it approaches d monotonically
\* without overshooting
C31_VelocityBlendsTowardDisplacement ==
    last.op = "update" =>
        \A i \in 1..Len(last.results) :
            LET r == last.results[i]
                dx == r.match.x - r.was.actualPos.x
                dy == r.match.y - r.was.actualPos.y
            IN (r.match.has /\ r.match.confidence > confidenceThreshold) =>
                  /\ r.now.velocity.x = RoundDiv(7 * r.was.velocity.x + 3 * dx, 10)
                  /\ r.now.velocity.y = RoundDiv(7 * r.was.velocity.y + 3 * dy, 10)
                  /\ Between(r.now.velocity.x, r.was.velocity.x, dx)
                  /\ Between(r.now.velocity.y, r.was.velocity.y, dy)
                  /\ Abs(dx - r.now.velocity.x) <= Abs(dx - r.was.velocity.x)
                  /\ Abs(dy - r.now.velocity.y) <= Abs(dy - r.was.velocity.y)

\* a target already moving was accepted one pixel further on: its velocity rose
\* towards the displacement and stayed below it
C31_VelocityRoseTowardDisplacement ==
    /\ last.op = "update"
    /\ \E i \in 1..Len(last.results) :
          LET r == last.results[i]
              dx == r.match.x - r.was.actualPos.x
          IN /\ r.match.has /\ r.match.confidence > confidenceThreshold
             /\ dx > 0
             /\ r.was.velocity.x # 0
             /\ r.was.velocity.x < r.now.velocity.x
             /\ r.now.velocity.x < dx

\* C32: on an accepted frame the new trail is the old trail, without its oldest entry
\* if it already held T = 10 entries, followed by the new displayPosition; on a
\* rejected frame the trail is unchanged; hence the last trail entry of a target
\* with lostFrames = 0 is its displayPosition
C32_TrailAppendsEvictingOldest ==
    /\ last.op = "update" =>
          \A i \in 1..Len(last.results) :
             LET r == last.results[i]
             IN r.now.trail =
                   IF r.match.has /\ r.match.confidence > confidenceThreshold
                   THEN (IF Len(r.was.trail) >= trailLength
                         THEN Tail(r.was.trail) ELSE r.was.trail) \o << r.now.currentPos >>
                   ELSE r.was.trail
    /\ \A i \in 1..Len(trackedTemplates) :
          trackedTemplates[i].lostFrames = 0 =>
             trackedTemplates[i].trail[Len(trackedTemplates[i].trail)]
                = trackedTemplates[i].currentPos

\* a moving target with a full trail of distinct entries was accepted: the oldest
\* entry left, the others moved up in order and the new displayPosition came last
C32_FullTrailShifted ==
    /\ last.op = "update"
    /\ \E i \in 1..Len(last.results) :
          LET r == last.results[i]
          IN /\ Len(r.was.trail) = trailLength
             /\ r.now.lostFrames = 0
             /\ r.was.trail[1] # r.was.trail[2]
             /\ r.was.trail[trailLength] # r.now.currentPos
             /\ r.now.trail[1] = r.was.trail[2]
             /\ r.now.trail[trailLength - 1] = r.was.trail[trailLength]
             /\ r.now.trail[trailLength] = r.now.currentPos

\* C33: on a rejected frame displayPosition is set to the dead-reckoned
\* estimatedPosition without smoothing, so after a rejected update the two are equal;
\* on an accepted frame displayPosition' is the midpoint of the old displayPosition
\* and the new estimatedPosition
C33_DisplayFollowsEstimate ==
    last.op = "update" =>
        \A i \in 1..Len(last.results) :
            LET r == last.results[i]
            IN IF r.match.has /\ r.match.confidence > confidenceThreshold
               THEN /\ r.now.currentPos.x = RoundDiv(r.was.currentPos.x + r.now.actualPos.x, 2)
                    /\ r.now.currentPos.y = RoundDiv(r.was.currentPos.y + r.now.actualPos.y, 2)
               ELSE /\ r.now.currentPos = r.now.actualPos
                    /\ r.now.actualPos.x = r.was.actualPos.x + r.was.velocity.x
                    /\ r.now.actualPos.y = r.was.actualPos.y + r.was.velocity.y

\* a target whose displayPosition lagged behind its estimatedPosition was rejected:
\* the displayPosition jumped onto the dead-reckoned estimate
C33_LaggingDisplayJumped ==
    /\ last.op = "update"
    /\ \E i \in 1..Len(last.results) :
          LET r == last.results[i]
          IN /\ ~(r.match.has /\ r.match.confidence > confidenceThreshold)
             /\ r.was.currentPos.x # r.was.actualPos.x
             /\ r.now.currentPos = r.now.actualPos
             /\ r.now.currentPos.x # RoundDiv(r.was.currentPos.x + r.now.actualPos.x, 2)

\* C34: during an update no pooled position, vector or match object is read or
\* written while it is in a pool, the search centre handed out (predictedPos, or
\* currentPos in the retry) is never the prevPos object, no object is present twice
\* in the pools, and no pool holds more than 50 objects
C34_PoolDiscipline ==
    last.op = "pool" =>
        /\ ~last.pools.misuse
        /\ ~last.pools.aliased
        /\ \A type \in PoolNames :
              /\ Len(last.pools[type]) <= 50
              /\ \A j, k \in 1..Len(last.pools[type]) :
                    last.pools[type][j] = last.pools[type][k] => j = k
        /\ \A t1, t2 \in PoolNames :
              \A j \in 1..Len(last.pools[t1]) : \A k \in 1..Len(last.pools[t2]) :
                 last.pools[t1][j] = last.pools[t2][k] => t1 = t2

\* an update whose first search found a weak candidate and whose retry found
\* the accepted one: the retry's centre was the object predictedPos had been, both
\* position objects and one match object are back in their pools and the first
\* search's match object was dropped
C34_RetryReusedCentre ==
    /\ last.op = "pool"
    /\ last.firstFound /\ last.retry /\ last.retryFound /\ last.accepted
    /\ last.pools.currentPos = last.pools.predictedPos
    /\ last.pools.currentPos # last.pools.prevPos
    /\ Len(last.pools.positions) = 2
    /\ Len(last.pools.matches) = 1
    /\ Len(last.pools.vectors) = 1
    /\ \E obj \in 1..(last.pools.fresh - 1) : ~Pooled(last.pools, obj)

\* C35: at most one frameLoop chain is live at a time, whatever the order of
\* start(), stop(), the pending animation frame callback and the camera's
\* initialisation: never two callbacks of frameLoop are registered at once
C35_OneFrameLoopChain == last.pending <= 1

\* C36: while the application is running (isRunning is true, stop() not called
\* since) a call of frameLoop is always registered for the next animation frame
C36_RunningKeepsRescheduling == last.isRunning => last.pending >= 1

\* C37: in a frame that was captured, every enabled processor is called in spite
\* of the throws of the others and the next frame is requested; a frame without
\* data requests the next frame too; the point processor renders only after its
\* update, compaction included, has completed
C37_ThrowsAreContained ==
    (last.op \in {"started", "frame"} /\ last.entered) =>
        /\ last.rescheduled
        /\ last.frameData =>
              \A i \in 1..Len(ProcessorNames) :
                 (last.processorStates[ProcessorNames[i]] /\ last.loaded[ProcessorNames[i]])
                     => \E j \in 1..Len(last.ran) : last.ran[j] = ProcessorNames[i]
        /\ \A k \in 1..Len(last.pointSteps) :
              last.pointSteps[k] = "render" =>
                  /\ \E j \in 1..(k - 1) : last.pointSteps[j] = "update"
                  /\ \E j \in 1..(k - 1) : last.pointSteps[j] = "compaction"

C37_ThrowerFollowedByOthers ==
    /\ last.op = "frame"
    /\ last.entered /\ last.frameData /\ last.rescheduled
    /\ last.threw = {"motion"}
    /\ last.ran = << "motion", "point", "region" >>
    /\ last.pointSteps = << "update", "compaction", "render" >>

====
